---- MODULE Spec2Model ----
(***************************************************************************)
(* Resumable, cursor-paginated yearly harvest of SciPubCrawl:               *)
(* cursor_yearly_dump of src/search_crossref.py and                         *)
(* src/search_europe_pmc.py (with eupmc_iter_results).                      *)
(* Spec, SpecPage: one year partition; one process runs the harvest of the  *)
(* year, it can be killed between two steps and started again.  The remote  *)
(* API is a black box that answers a request with 429, an error, or a page  *)
(* of records and a next cursor.                                            *)
(* SpecBatch: the batch passes over a stored JSONL file (in-place           *)
(* deduplication, regex filter, key loading).                               *)
(* SpecYears: the loop of cursor_yearly_dump over start_year..end_year.     *)
(* SpecPeers: two cursor_yearly_dump processes over one out_dir with        *)
(* disjoint year ranges.                                                   *)
(* SpecMatch: the match functions of the regex filter, called on their own. *)
(* SpecDir: the batch filter over a directory of dump files.               *)
(* SpecParams: ChemRxivParams.load of alchemy_refactor/search_chemrxiv.py.  *)
(* SpecKeyword: the keyword search over a list of queries                   *)
(* (search_*_from_params, search_crossref_cursor, search_eupmc_keywords).   *)
(* SpecScope: the scope of a regex configuration, from the configuration    *)
(* to the match of one entry.                                               *)
(* SpecMonths: scrape_chemrxiv_monthly, run after run over one save_dir.    *)
(* SpecChunk: one call of _scrape_range_chunked with its recursive calls.   *)
(***************************************************************************)
EXTENDS Integers, Sequences, FiniteSets, TLC

\* ---------------------------------------------------------------- bounds
MaxServer == 3
MaxHarvest == 2
PageSize == 2
RestartThreshold == 2
MaxErrors == 2
MaxRuns == 2

\* ---------------------------------------------------------------- records
Sources == {"crossref", "eupmc"}

\* A JSON value of a title or abstract field, by its Python type: a str, a
\* list of values, None, or a number.
Str(s) == [str |-> s]

List(items) == [list |-> items]

None == [other |-> "None"]

Num == [other |-> "5"]

\* The number 0 and the bool False, with their str() texts.
Zero == [other |-> "0"]

PyFalse == [other |-> "False"]

IsStr(val) == "str" \in DOMAIN val

IsList(val) == "list" \in DOMAIN val

\* bool(val): an empty str, an empty list and None are false.
Truthy(val) ==
    IF IsStr(val) THEN val.str # ""
    ELSE IF IsList(val) THEN val.list # <<>>
    ELSE val \notin {None, Zero, PyFalse}

\* One bibliographic item as the API returns it (fields the core inspects).
R1 == [DOI |-> "10.1/a", id |-> "MED:1", title |-> Str("t1")]
R2 == [DOI |-> "10.1/A", id |-> "MED:2", title |-> Str("t2")]
R3 == [DOI |-> " ", id |-> "MED:3", title |-> Str("t1")]
R4 == [DOI |-> "", id |-> "", title |-> Str("t1")]

Records == {R1, R2, R3, R4}

\* str.strip() and str.lower() on the field values of Records.
Strip(s) == IF s = " " THEN "" ELSE s

Lower(s) == IF s = "10.1/A" THEN "10.1/a" ELSE s

\* The str items are joined without a separator.
RECURSIVE JoinStrs_NoSpace(_)
JoinStrs_NoSpace(items) ==
    IF items = <<>> THEN ""
    ELSE (IF IsStr(Head(items)) THEN Head(items).str ELSE "") \o
         JoinStrs_NoSpace(Tail(items))

\* " ".join(x for x in items if isinstance(x, str))
RECURSIVE JoinStrs(_)
JoinStrs(items) ==
    IF items = <<>> THEN ""
    ELSE LET rest == JoinStrs(Tail(items))
         IN  IF ~IsStr(Head(items)) THEN rest
             ELSE IF \A i \in 2..Len(items) : ~IsStr(items[i]) THEN Head(items).str
             ELSE Head(items).str \o " " \o rest

\* _text_to_str: the str items of a list joined by spaces, a str as it is,
\* "" for any other value.
text_to_str(val) ==
    IF IsList(val) THEN JoinStrs(val.list)
    ELSE IF IsStr(val) THEN val.str
    ELSE ""

\* hash(str) is salted per process (PYTHONHASHSEED): the same title hashes
\* differently in two processes, and equal titles hash equally in one.
HashSeeds == {"s0", "s1"}

hash(seed, title) ==
    IF seed = "s0"
    THEN (IF title = "t1" THEN "h0" ELSE "h1")
    ELSE (IF title = "t1" THEN "h1" ELSE "h0")

\* (entry.get("DOI") or entry.get("doi") or "").strip().lower()
crossref_doi(entry) == Lower(Strip(entry.DOI))

dedup_key_eupmc(entry, seed) ==
    LET doi == Lower(Strip(entry.DOI))
        eid == Strip(entry.id)
    IN  IF doi # "" THEN "doi:" \o doi
        ELSE IF eid # "" THEN "id:" \o eid
        ELSE "title:" \o hash(seed, text_to_str(entry.title))

\* The identity key of an entry for a source ("" = no key).
IdentityKey(src, entry, seed) ==
    IF src = "crossref" THEN crossref_doi(entry) ELSE dedup_key_eupmc(entry, seed)

\* ---------------------------------------------------------------- JSONL
\* A line of a file is its text.  json.dumps(entry) + "\n" is the line that
\* json.loads parses back to entry (canon: the text is what json.dumps
\* produces); Respaced(entry) is another text of the same JSON value (other
\* spacing, key order or escapes), which parses to entry too; any other line
\* (a truncated or foreign line) does not parse.
Dumps(entry) == [json |-> TRUE, obj |-> entry, canon |-> TRUE]

Respaced(entry) == [json |-> TRUE, obj |-> entry, canon |-> FALSE]

Garbage == [json |-> FALSE, obj |-> R4, canon |-> FALSE]

Parses(line) == line.json

Loads(line) == line.obj

Lines == {Dumps(r) : r \in Records} \cup {Garbage}

\* The key set loaded from an existing partition file before pagination
\* (search_crossref.py:293-302 keeps non-empty DOIs; search_europe_pmc.py:
\* 271-279 keeps the key of every line that parses).
RECURSIVE KeysOfLines(_, _, _)
KeysOfLines(src, f, seed) ==
    IF f = <<>> THEN {}
    ELSE LET line == Head(f)
             rest == KeysOfLines(src, Tail(f), seed)
         IN  IF ~Parses(line) THEN rest
             ELSE LET k == IdentityKey(src, Loads(line), seed)
                  IN  IF src = "crossref" /\ k = "" THEN rest ELSE rest \cup {k}

\* A restarted harvest forgets the partition: nothing is loaded.
LoadKeys_Forgets(src, f, seed) == {}

\* The keys are taken with the hash salt of the process that wrote the file.
LoadKeys_StaleSalt(src, f, seed) == KeysOfLines(src, f, "s0")

LoadKeys(src, f, seed) == KeysOfLines(src, f, seed)

\* _deduplicate_jsonl_file(in_place=True): the lines that replace the file.
RECURSIVE DedupLines(_, _, _, _)
DedupLines(src, f, seed, seenKeys) ==
    IF f = <<>> THEN <<>>
    ELSE LET line == Head(f)
         IN  IF ~Parses(line) THEN DedupLines(src, Tail(f), seed, seenKeys)
             ELSE LET obj == Loads(line)
                      k == IdentityKey(src, obj, seed)
                  IN  IF k = ""
                      THEN <<Dumps(obj)>> \o DedupLines(src, Tail(f), seed, seenKeys)
                      ELSE IF k \in seenKeys
                      THEN DedupLines(src, Tail(f), seed, seenKeys)
                      ELSE <<Dumps(obj)>> \o
                           DedupLines(src, Tail(f), seed, seenKeys \cup {k})

deduplicate_jsonl_file(src, f, seed) == DedupLines(src, f, seed, {})

\* ---------------------------------------------------------------- cursors
Star == "*"

NoCursor == ""

\* The opaque token the server issues for the position after p records.
Token(p) == "c" \o ToString(p)

Position(c) == IF c = Star THEN 0 ELSE CHOOSE p \in 0..(MaxServer + 1) : Token(p) = c

Min(a, b) == IF a < b THEN a ELSE b

\* ---------------------------------------------------------------- sleeps
RateLimitCooldown == 60

ErrorCooldown == 30

RestartPause == 20

PolitenessDelay == 1

\* ---------------------------------------------------------------- state
VARIABLES
    source,             \* which client runs: "crossref" or "eupmc"
    dedupe_on_write,    \* parameter of cursor_yearly_dump
    dedupe_existing,    \* parameter of cursor_yearly_dump
    total,              \* number of records the API holds for the year query
    file0,              \* the partition file before the first run
    file,               \* out_dir/dumps_<year>.jsonl: its lines
    exists,             \* output_file.exists()
    pc,                 \* "idle", "request", "write", "done", "killed"
    hseed,              \* hash salt of the running process
    cursor,             \* params["cursor"] / params["cursorMark"]
    seen,               \* seen_dois / seen
    batch,              \* items of the page being written
    idx,                \* index in batch of the next entry to process
    next_cursor,        \* next-cursor / nextCursorMark of that page
    processed_entries,  \* Crossref restart counter
    lastSleep,          \* seconds slept by the last step
    reqlog,             \* requests of this run: cursor sent, status, page size got
    fetched,            \* records of the successful responses of this run
    delivered,          \* records offered to the writer in this run
    errsLeft,           \* failed attempts the model still allows
    runsLeft,           \* process starts the model still allows
    completed,          \* some earlier step ended a run by exhausting pagination
    harvested,          \* records delivered by the runs that ended so
    tmp,                \* <in_path>.tmp: its lines (<<>> when absent)
    dedup,              \* locals of _deduplicate_jsonl_file: pc, pos, seen,
                        \* total, kept, missing
    results,            \* the stats dicts returned by the passes that ended
    snaps,              \* the file at in_path after each pass that ended
    passesLeft,         \* batch passes the model still allows
    regex_cfg,          \* regex_cfg argument of the last filter call
    require_full_text,  \* require_full_text argument of that call
    fout,               \* out_path of the filter: its lines
    fresults,           \* the stats dicts returned by the filter calls
    fraised,            \* the exceptions the filter calls raised
    filtersLeft,        \* filter calls the model still allows
    start_year,         \* parameter of cursor_yearly_dump
    end_year,           \* parameter of cursor_yearly_dump
    year,               \* the loop variable of "for year in range(...)"
    output_file,        \* out_dir / f"dumps_{year}.jsonl": the path of file
    disk,               \* the other partition files of out_dir: path -> lines
    present,            \* the paths of disk that exist
    started,            \* the years the loop has entered, in order
    peers,              \* the locals of each of two concurrent cursor_yearly_dump
                        \* runs over one out_dir
    served,             \* year -> the records the API holds for that year
    call,               \* one call of the match functions: its arguments and
                        \* what it returned
    in_dir,             \* the files of in_dir of the batch filter: name -> lines
    out_dir,            \* the files of out_dir: name -> lines
    children,           \* what "for child in sorted(in_dir.iterdir())" has left
    params,             \* one call of ChemRxivParams.load: the params file, its
                        \* JSON content and the object returned
    kw,                 \* one keyword search (search_*_from_params and the
                        \* search_*_cursor / search_eupmc_keywords it calls)
    chem                \* one ChemRxiv scrape: the month files and the calls

\* The years a harvest can span.
FirstYear == 2010

MaxYears == 2

Years == FirstYear..(FirstYear + MaxYears - 1)

\* out_dir / f"dumps_{year}.jsonl"
PartitionPath_Shared(y) == "dumps.jsonl"

PartitionPath(y) == "dumps_" \o ToString(y) \o ".jsonl"

Partitions == {PartitionPath(y) : y \in Years}

yearvars == <<start_year, end_year, year, output_file, disk, present, started>>

filtvars == <<regex_cfg, require_full_text, fout, fresults, fraised, filtersLeft>>

peervars == <<peers, served>>

\* The state of the operations the harvest and the batch passes never touch.
dirvars == <<in_dir, out_dir, children>>

latevars == <<kw, chem>>

othervars == <<peervars, call, dirvars, params, latevars>>

batchvars == <<tmp, dedup, results, snaps, passesLeft, filtvars>>

config == <<source, dedupe_on_write, dedupe_existing, total, file0, yearvars,
           othervars>>

history == <<completed, harvested>>

vars == <<source, dedupe_on_write, dedupe_existing, total, file0, file, exists,
          pc, hseed, cursor, seen, batch, idx, next_cursor, processed_entries,
          lastSleep, reqlog, fetched, delivered, errsLeft, runsLeft, completed, harvested,
          tmp, dedup, results, snaps, passesLeft,
          regex_cfg, require_full_text, fout, fresults, fraised, filtersLeft,
          start_year, end_year, year, output_file, disk, present, started,
          peers, served, call, in_dir, out_dir, children, params, kw, chem>>

Range(s) == {s[i] : i \in 1..Len(s)}

\* Partition files a harvest can find: none, a clean one, one with a line
\* that does not parse, one with two lines of the same DOI.
InitFiles ==
    {<<>>, <<Dumps(R1)>>, <<Garbage, Dumps(R4)>>, <<Dumps(R2), Dumps(R1)>>}

Volatile0 ==
    /\ pc = "idle"
    /\ hseed = "s0"
    /\ cursor = Star
    /\ seen = {}
    /\ batch = <<>>
    /\ idx = 1
    /\ next_cursor = NoCursor
    /\ processed_entries = 0
    /\ lastSleep = 0
    /\ reqlog = <<>>
    /\ fetched = <<>>
    /\ delivered = <<>>
    /\ completed = FALSE
    /\ harvested = {}

\* The harvest of the single year FirstYear.
OneYear ==
    /\ start_year = FirstYear
    /\ end_year = FirstYear
    /\ year = FirstYear
    /\ output_file = PartitionPath(FirstYear)
    /\ disk = [p \in Partitions |-> <<>>]
    /\ present = {}
    /\ started = <<FirstYear>>

\* No batch pass is running or allowed.
DedupIdle == [pc |-> "idle", pos |-> 1, seen |-> {}, total |-> 0, kept |-> 0,
              missing |-> 0]

\* regex_cfg=None: not a dict, _normalize_regex_cfg takes the default.
NoRegexCfg == [isdict |-> FALSE, groups |-> None, scope |-> None]

\* No second process shares out_dir.
PeersIdle ==
    /\ peers = <<>>
    /\ served = <<>>

\* No match function was called on its own.
NoCall == [entry |-> [title |-> None], groups |-> {}, scope |-> "", returned |-> {}]

\* No batch filter runs over a directory.
NoDir ==
    /\ in_dir = <<>>
    /\ out_dir = <<>>
    /\ children = <<>>

\* ChemRxivParams.load is not called.
NoParams == params = <<>>

\* No keyword search and no ChemRxiv scrape runs.
LateIdle ==
    /\ kw = [pc |-> "idle"]
    /\ chem = [pc |-> "idle"]

OthersIdle ==
    /\ PeersIdle
    /\ call = NoCall
    /\ NoDir
    /\ NoParams
    /\ LateIdle

BatchIdle ==
    /\ tmp = <<>>
    /\ dedup = DedupIdle
    /\ results = <<>>
    /\ snaps = <<>>
    /\ regex_cfg = NoRegexCfg
    /\ require_full_text = FALSE
    /\ fout = <<>>
    /\ fresults = <<>>
    /\ fraised = <<>>

\* A harvest that is killed and started again, over any partition file.
Init ==
    /\ source \in Sources
    /\ dedupe_on_write \in BOOLEAN
    /\ dedupe_existing \in BOOLEAN
    /\ total \in 0..MaxHarvest
    /\ file0 \in InitFiles
    /\ file = file0
    /\ exists = (file0 # <<>>)
    /\ errsLeft = 1
    /\ runsLeft = MaxRuns
    /\ Volatile0
    /\ BatchIdle
    /\ OthersIdle
    /\ passesLeft = 0
    /\ filtersLeft = 0
    /\ OneYear

\* One pagination run into a fresh partition, with failing attempts.
InitPage ==
    /\ source \in Sources
    /\ dedupe_on_write \in BOOLEAN
    /\ dedupe_existing = FALSE
    /\ total \in 0..MaxServer
    /\ file0 = <<>>
    /\ file = file0
    /\ exists = FALSE
    /\ errsLeft = MaxErrors
    /\ runsLeft = 1
    /\ Volatile0
    /\ BatchIdle
    /\ OthersIdle
    /\ passesLeft = 0
    /\ filtersLeft = 0
    /\ OneYear

\* ---------------------------------------------------------------- year start
\* A compaction that raises takes the partition with it.
CompactedFile_LosesFileOnError(src, f, seed, dex, raises) ==
    IF ~dex THEN f ELSE IF raises THEN <<>> ELSE deduplicate_jsonl_file(src, f, seed)

\* The file after the optional in-place compaction of an existing partition:
\* "try: _deduplicate_jsonl_file(output_file, in_place=True) / except
\* Exception".  The temp file replaces the partition as the last statement of
\* the pass, so a pass that raises has left the partition as it was.
CompactedFile(src, f, seed, dex, raises) ==
    IF dex /\ ~raises THEN deduplicate_jsonl_file(src, f, seed) ELSE f

\* The cursor the last process had reached is taken up again.
FirstCursor_Resumes(last) == last

\* params["cursor"] / params["cursorMark"] of the first request of a
\* pagination run: the literal "*", whatever an earlier run had reached.
FirstCursor(last) == Star

\* A process enters the year: compacts and loads the existing partition,
\* resets the cursor to the start sentinel.
StartYear ==
    /\ pc \in {"idle", "killed", "done"}
    /\ runsLeft > 0
    /\ \E s \in (IF source = "eupmc" THEN HashSeeds ELSE {"s0"}), raises \in BOOLEAN :
          /\ hseed' = s
          /\ file' = (IF exists THEN CompactedFile(source, file, s, dedupe_existing, raises)
                      ELSE file)
          /\ seen' = (IF exists THEN LoadKeys(source, file', s) ELSE {})
    /\ cursor' = FirstCursor(cursor)
    /\ processed_entries' = 0
    /\ batch' = <<>>
    /\ idx' = 1
    /\ next_cursor' = NoCursor
    /\ lastSleep' = 0
    /\ reqlog' = <<>>
    /\ fetched' = <<>>
    /\ delivered' = <<>>
    /\ runsLeft' = runsLeft - 1
    /\ pc' = "request"
    /\ UNCHANGED <<config, batchvars, exists, errsLeft, history>>

\* ---------------------------------------------------------------- requests
\* A request as the log keeps it: the year of its filter / PUB_YEAR clause,
\* the cursor sent, the status, size and next cursor of the answer.
LogEntry(c, status, n, nc) ==
    [year |-> year, cursor |-> c, status |-> status, n |-> n, nc |-> nc]

\* What the loop does with a response that is not a page: the cursor it keeps
\* and the seconds it sleeps before the next attempt.
CursorAfter429_Restarts(c) == Star

CursorAfter429(c) == c

CursorAfterError_Restarts(c) == Star

CursorAfterError(c) == c

\* resp.status_code == 429: sleep 60 and retry the same request
\* (search_crossref.py:313-316; search_europe_pmc.py:53-55).
RateLimited ==
    /\ pc = "request"
    /\ errsLeft > 0
    /\ errsLeft' = errsLeft - 1
    /\ reqlog' = Append(reqlog, LogEntry(cursor, "429", 0, NoCursor))
    /\ cursor' = CursorAfter429(cursor)
    /\ lastSleep' = RateLimitCooldown
    /\ pc' = "request"
    /\ UNCHANGED <<config, batchvars, file, exists, hseed, seen, batch, idx, next_cursor,
                   processed_entries, fetched, delivered, runsLeft, history>>

RequestFailed_Propagates4xx ==
    /\ pc = "request"
    /\ errsLeft > 0
    /\ errsLeft' = errsLeft - 1
    /\ \E st \in {"404", "transient"} :
          /\ reqlog' = Append(reqlog, LogEntry(cursor, st, 0, NoCursor))
          /\ pc' = (IF st = "404" THEN "raised" ELSE "request")
    /\ cursor' = cursor
    /\ lastSleep' = ErrorCooldown
    /\ UNCHANGED <<config, batchvars, file, exists, hseed, seen, batch, idx, next_cursor,
                   processed_entries, fetched, delivered, runsLeft, history>>

\* A response whose raise_for_status() raises HTTPError, or a request that
\* raises another RequestException (connection error, timeout): both are
\* caught by "except requests.exceptions.RequestException"
\* (search_crossref.py:317, 361-365; search_europe_pmc.py:56-61).
FailureStatuses == {"404", "transient"}

RequestFailed ==
    /\ pc = "request"
    /\ errsLeft > 0
    /\ errsLeft' = errsLeft - 1
    /\ \E st \in FailureStatuses :
          reqlog' = Append(reqlog, LogEntry(cursor, st, 0, NoCursor))
    /\ cursor' = CursorAfterError(cursor)
    /\ lastSleep' = ErrorCooldown
    /\ pc' = "request"
    /\ UNCHANGED <<config, batchvars, file, exists, hseed, seen, batch, idx, next_cursor,
                   processed_entries, fetched, delivered, runsLeft, history>>

\* A 200 response: a page of at most PageSize records and a next cursor,
\* possibly short of the page size and possibly without a cursor.
RequestOK ==
    /\ pc = "request"
    /\ \E n \in 0..Min(PageSize, total - Position(cursor)) :
       \E b \in [1..n -> Records] :
       \E nc \in {Token(Position(cursor) + n), NoCursor} :
          /\ batch' = b
          /\ next_cursor' = nc
          /\ reqlog' = Append(reqlog, LogEntry(cursor, "200", n, nc))
          /\ fetched' = fetched \o b
    /\ idx' = 1
    \* Crossref opens the file for append before looping over the batch.
    /\ exists' = (IF source = "crossref" THEN TRUE ELSE exists)
    /\ lastSleep' = 0
    /\ pc' = "write"
    /\ UNCHANGED <<config, batchvars, file, hseed, cursor, seen, processed_entries,
                   delivered, errsLeft, runsLeft, history>>

\* ---------------------------------------------------------------- inline dedup
\* Keyless entries are compared like keyed ones.
SkipsEntry_Keyless(src, dow, k, seenKeys) == dow /\ (k = "" \/ k \in seenKeys)

\* Whether the writer skips an entry with identity key k
\* (search_crossref.py:330-333, and 107-110 in the keyword search;
\* search_europe_pmc.py:294-295).
SkipsEntry(src, dow, k, seenKeys) ==
    IF src = "crossref"
    THEN dow /\ k # "" /\ k \in seenKeys
    ELSE dow /\ k \in seenKeys

\* The key of a written entry is not recorded.
SeenAfter_NoAdd(src, dow, k, seenKeys) == seenKeys

\* The seen-set after an entry with key k was not skipped
\* (search_crossref.py:334-335; search_europe_pmc.py:296, which adds the key
\* whether or not dedupe_on_write is set).
SeenAfter(src, dow, k, seenKeys) ==
    IF src = "crossref"
    THEN (IF dow /\ k # "" THEN seenKeys \cup {k} ELSE seenKeys)
    ELSE seenKeys \cup {k}

\* The loop over the batch ends one entry early.
BatchExhausted_Early(i, b) == i >= Len(b)

\* "for entry in batch" has no entry left.
BatchExhausted(i, b) == i > Len(b)

\* One entry of the batch is offered to the writer.
WriteEntry ==
    /\ pc = "write"
    /\ idx <= Len(batch)
    /\ LET entry == batch[idx]
           k == IdentityKey(source, entry, hseed)
       IN  /\ delivered' = Append(delivered, entry)
           /\ IF SkipsEntry(source, dedupe_on_write, k, seen)
              THEN UNCHANGED <<file, exists, seen>>
              ELSE /\ seen' = SeenAfter(source, dedupe_on_write, k, seen)
                   /\ file' = Append(file, Dumps(entry))
                   /\ exists' = TRUE
    /\ idx' = idx + 1
    /\ lastSleep' = 0
    /\ UNCHANGED <<config, batchvars, pc, hseed, cursor, batch, next_cursor,
                   processed_entries, reqlog, fetched, errsLeft, runsLeft, history>>

\* ---------------------------------------------------------------- end of page
\* A short page does not stop the loop.
Continues_IgnoresShort(b, rows, nc) == Len(b) # 0 /\ nc # NoCursor

\* A full page stops the loop.
Continues_StopsOnFull(b, rows, nc) == Len(b) > rows /\ nc # NoCursor

\* Whether the loop goes on to another request after a page
\* (search_crossref.py:341-349 and 114-119; search_europe_pmc.py:68-71).
Continues(b, rows, nc) ==
    /\ ~(Len(b) = 0 \/ Len(b) < rows)
    /\ nc # NoCursor

\* The counter is never reset.
CountAfterPage_NeverResets(src, count, n) == IF src = "crossref" THEN count + n ELSE count

\* The counter and pause of the Crossref restart threshold.
CountAfterPage(src, count, n) ==
    IF src = "crossref"
    THEN (IF count + n >= RestartThreshold THEN 0 ELSE count + n)
    ELSE count

PauseAfterPage(src, count, n) ==
    IF src = "crossref" /\ count + n >= RestartThreshold
    THEN RestartPause + PolitenessDelay
    ELSE PolitenessDelay

\* The batch is written: stop, or take the next cursor and sleep.
EndPage ==
    /\ pc = "write"
    /\ BatchExhausted(idx, batch)
    /\ IF Continues(batch, PageSize, next_cursor)
       THEN /\ cursor' = next_cursor
            /\ processed_entries' =
                  CountAfterPage(source, processed_entries, Len(batch))
            /\ lastSleep' = PauseAfterPage(source, processed_entries, Len(batch))
            /\ pc' = "request"
            /\ UNCHANGED history
       ELSE /\ processed_entries' =
                  (IF source = "crossref" THEN processed_entries + Len(batch)
                   ELSE processed_entries)
            /\ lastSleep' = 0
            /\ pc' = "done"
            /\ completed' = TRUE
            /\ harvested' = harvested \cup Range(delivered)
            /\ UNCHANGED cursor
    /\ UNCHANGED <<config, batchvars, file, exists, hseed, seen, batch, idx, next_cursor,
                   reqlog, fetched, delivered, errsLeft, runsLeft>>

\* ---------------------------------------------------------------- kill
\* The process is terminated from outside between two steps.
Kill ==
    /\ pc \in {"request", "write"}
    /\ pc' = "killed"
    \* the memory of the process is gone; the file stays
    /\ hseed' = "s0"
    /\ cursor' = Star
    /\ seen' = {}
    /\ batch' = <<>>
    /\ idx' = 1
    /\ next_cursor' = NoCursor
    /\ processed_entries' = 0
    /\ lastSleep' = 0
    /\ UNCHANGED <<config, batchvars, file, exists, reqlog, fetched, delivered,
                   errsLeft, runsLeft, history>>

Next ==
    \/ StartYear
    \/ RateLimited
    \/ RequestFailed
    \/ RequestOK
    \/ WriteEntry
    \/ EndPage
    \/ Kill

Spec == Init /\ [][Next]_vars

SpecPage == InitPage /\ [][Next]_vars

\* ================================================================ properties
KeyOfLine(src, line, seed) == IdentityKey(src, Loads(line), seed)

\* No two parsable lines of f have the same non-empty identity key.
DistinctKeys(src, f, seed) ==
    \A i, j \in 1..Len(f) :
        (i < j /\ Parses(f[i]) /\ Parses(f[j]) /\ KeyOfLine(src, f[i], seed) # "")
            => KeyOfLine(src, f[i], seed) # KeyOfLine(src, f[j], seed)

\* The same, whichever process computes the keys.
UniqueKeys(src, f) == \A s \in HashSeeds : DistinctKeys(src, f, s)

\* Number of lines of f whose identity key is k.
CountKey(src, f, seed, k) ==
    Cardinality({i \in 1..Len(f) : Parses(f[i]) /\ KeyOfLine(src, f[i], seed) = k})

Last(s) == s[Len(s)]

IsPrefix(s, t) == Len(s) <= Len(t) /\ \A i \in 1..Len(s) : s[i] = t[i]

\* This step issued a request that was answered with status st.
Answered(st) ==
    /\ Len(reqlog') = Len(reqlog) + 1
    /\ Last(reqlog').status = st

\* This step offered batch[idx] to the writer.
Offered == pc = "write" /\ Len(delivered') = Len(delivered) + 1

\* ---------------------------------------------------------------- C1
\* C1: with dedupe_on_write enabled, starting from no partition file or from
\* one whose non-empty identity keys are pairwise distinct, after any sequence
\* of runs, each possibly killed between two appends and restarted, no two
\* lines of the partition file have the same non-empty identity key.
C1_PartitionKeysUnique ==
    (dedupe_on_write /\ UniqueKeys(source, file0)) => UniqueKeys(source, file)

\* A restarted run has just skipped a keyed entry that an earlier run wrote.
C1_Witness ==
    /\ dedupe_on_write
    /\ ~dedupe_existing
    /\ UniqueKeys(source, file0)
    /\ runsLeft = 0
    /\ pc = "write"
    /\ idx = 2
    /\ IdentityKey(source, batch[1], hseed) # ""
    /\ Len(file) > Len(file0)
    /\ Last(file) # Dumps(batch[1])
    /\ CountKey(source, file, hseed, IdentityKey(source, batch[1], hseed)) = 1
    /\ CountKey(source, file0, hseed, IdentityKey(source, batch[1], hseed)) = 0

\* ---------------------------------------------------------------- C2
\* Every keyed record the API returned in the run now ended is stored once.
FetchedStoredOnce ==
    \A i \in 1..Len(fetched) :
        LET k == IdentityKey(source, fetched[i], hseed)
        IN  k # "" => CountKey(source, file, hseed, k) = 1

\* C2 (as stated): when the harvest of a year, after any number of kills and
\* restarts, runs until pagination is exhausted, every record with a non-empty
\* identity key that the API returned during that final run is in the
\* partition file exactly once.
C2_Original == pc = "done" => FetchedStoredOnce

\* C2 (amended): the same, for a harvest run with dedupe_on_write enabled over
\* a partition that was absent or had pairwise distinct keys before the first
\* run.
C2_FinalRunStoredOnce ==
    (pc = "done" /\ dedupe_on_write /\ UniqueKeys(source, file0)) => FetchedStoredOnce

\* A second run ended after fetching a keyed record that the first run stored.
C2_Witness ==
    /\ pc = "done"
    /\ dedupe_on_write
    /\ ~dedupe_existing
    /\ UniqueKeys(source, file0)
    /\ runsLeft = 0
    /\ Len(file) = Len(file0) + 1
    /\ Len(fetched) = 2
    /\ \A i \in 1..2 : IdentityKey(source, fetched[i], hseed) # ""
    /\ \A i \in 1..2 : CountKey(source, file0, hseed,
                                IdentityKey(source, fetched[i], hseed)) = 0

\* ---------------------------------------------------------------- C3
\* In a run started after a completed one, the step that is about to touch the
\* partition with nothing new: the start of the re-run, or the offer of a
\* record that the completed harvest had already been given.
RerunStep ==
    /\ completed
    /\ dedupe_on_write
    /\ \/ pc = "done"
       \/ pc = "write" /\ idx <= Len(batch) /\ batch[idx] \in harvested

\* C3 (as stated): re-running a year that was harvested to completion, in a
\* new process against an API that returns the same records, appends nothing:
\* the partition file is identical before and after.
C3_Original == [][RerunStep => file' = file]_vars

\* C3 (amended): the re-run appends no record that has an identity key; a
\* record without one (a Crossref item without DOI) is appended again.  With
\* dedupe_existing the start of the re-run compacts the partition, which
\* removes lines when the compaction of the completed run had raised.
C3_RerunAppendsOnlyKeyless ==
    [][RerunStep =>
          \/ file' = file
          \/ /\ pc = "done"
             /\ dedupe_existing
             /\ file' = deduplicate_jsonl_file(source, file, hseed')
          \/ /\ pc = "write"
             /\ IdentityKey(source, batch[idx], hseed) = ""
             /\ file' = Append(file, Dumps(batch[idx]))]_vars

\* The re-run was given a harvested record with a key and did not write it.
C3_Witness ==
    /\ completed
    /\ dedupe_on_write
    /\ pc = "write"
    /\ idx = 2
    /\ batch[1] \in harvested
    /\ IdentityKey(source, batch[1], hseed) # ""
    /\ CountKey(source, file, hseed, IdentityKey(source, batch[1], hseed)) = 1
    /\ Last(file) = Dumps(batch[1])
    /\ Len(delivered) = 1

\* ---------------------------------------------------------------- C4
\* C4: within one pagination run, for every interleaving of 429 responses,
\* errors and successful responses, the records of each successfully fetched
\* page are delivered exactly once and in cursor-chain order (the delivered
\* records are at every moment a prefix of the fetched ones, and all of them
\* whenever the loop is about to request or has ended), and an attempt that
\* fails delivers no record.
C4_DeliveredOnceInOrder ==
    /\ [](/\ IsPrefix(delivered, fetched)
          /\ pc \in {"request", "done"} => delivered = fetched)
    /\ [][(Len(reqlog') = Len(reqlog) + 1 /\ Last(reqlog').status # "200")
             => (delivered' = delivered /\ fetched' = fetched)]_vars

\* Two non-empty pages were delivered around a 429 and an error.
C4_Witness ==
    /\ pc = "done"
    /\ Len(reqlog) = 4
    /\ reqlog[1].status = "200" /\ reqlog[1].n = 2
    /\ reqlog[2].status = "429"
    /\ reqlog[3].status = "transient"
    /\ reqlog[4].status = "200" /\ reqlog[4].n = 1
    /\ Len(delivered) = 3
    /\ delivered[1] # delivered[2]
    /\ delivered[2] # delivered[3]

\* ---------------------------------------------------------------- C5
\* The page in hand is non-empty, full, and came with a next cursor.
MorePages ==
    /\ Len(batch) > 0
    /\ Len(batch) = PageSize
    /\ next_cursor # NoCursor

\* C5: after a successful response the loop issues a further request if and
\* only if the batch is non-empty, its size equals the requested page size and
\* a next-cursor token was returned; otherwise it terminates, having delivered
\* every record of that last batch, and issues no request after it.
C5_ContinuesIffFullPage ==
    /\ [][(pc = "write" /\ idx > Len(batch) /\ pc' # "killed") =>
             /\ MorePages => (pc' = "request" /\ cursor' = next_cursor)
             /\ ~MorePages => (pc' = "done" /\ delivered' = fetched
                               /\ Len(reqlog') = Len(reqlog))]_vars
    /\ [][pc = "done" => Len(reqlog') <= Len(reqlog)]_vars
    /\ [](pc = "request" /\ reqlog # <<>> /\ Last(reqlog).status = "200"
             => (Last(reqlog).n = PageSize /\ Last(reqlog).nc = cursor))

\* The loop ended on a short, non-empty page that carried a next cursor,
\* after a full first page.
C5_Witness ==
    /\ pc = "done"
    /\ Len(reqlog) = 2
    /\ reqlog[1].n = PageSize
    /\ reqlog[2].n = 1
    /\ reqlog[2].nc # NoCursor
    /\ Len(delivered) = PageSize + 1

\* ---------------------------------------------------------------- C6
\* C6 (as stated): whenever the pagination loop ends, the server holds no
\* further record after the ones it returned, for every sequence of server
\* responses (including short pages that are not the last).
C6_Original == pc = "done" => Len(fetched) = total

\* Every page was as long as the server could make it, and carried a next
\* cursor whenever records remained after it.
ServerFillsPages ==
    \A i \in 1..Len(reqlog) :
        reqlog[i].status = "200" =>
            LET p == Position(reqlog[i].cursor)
            IN  /\ reqlog[i].n = Min(PageSize, total - p)
                /\ (p + reqlog[i].n < total => reqlog[i].nc # NoCursor)

\* C6 (amended): whenever the pagination loop ends, the server holds no
\* further record, provided the server filled every page that was not the
\* last and returned a next cursor with it; a short page or a missing cursor
\* ends the loop whatever the server still holds.
C6_ExhaustedIfPagesFull ==
    (pc = "done" /\ ServerFillsPages) => Len(fetched) = total

\* The loop ran over a full page and a final short one and got everything.
C6_Witness ==
    /\ pc = "done"
    /\ ServerFillsPages
    /\ total = MaxServer
    /\ Len(fetched) = total
    /\ Len(reqlog) >= 2

\* ---------------------------------------------------------------- C7
Statuses(log) == [i \in 1..Len(log) |-> log[i].status]

\* C7: on a 429 response the client retries the same request with the cursor
\* unchanged, delivers and writes nothing for that attempt and does not raise;
\* for the responses [429, 429, 200 with a final batch] exactly 3 requests are
\* issued, all with the same cursor, and the delivered records are exactly
\* those of the third response.
C7_RateLimitRetriesSameRequest ==
    /\ [][Answered("429") =>
             /\ pc' = "request"
             /\ cursor' = cursor
             /\ UNCHANGED <<delivered, file, exists, seen>>]_vars
    /\ [](reqlog # <<>> /\ Last(reqlog).status = "429"
             => (pc \in {"request", "killed"}
                 /\ (pc = "request" => cursor = Last(reqlog).cursor)))
    /\ []((pc = "done" /\ Statuses(reqlog) = <<"429", "429", "200">>) =>
             /\ \A i \in 1..3 : reqlog[i].cursor = Star
             /\ delivered = batch
             /\ Len(batch) = reqlog[3].n)
    /\ []((Len(reqlog) >= 3 /\ SubSeq(Statuses(reqlog), 1, 3) = <<"429", "429", "200">>
           /\ ~(reqlog[3].n = PageSize /\ reqlog[3].nc # NoCursor))
             => Len(reqlog) = 3)

\* The run ended after [429, 429, 200] with the two records of the third
\* response delivered.
C7_Witness ==
    /\ pc = "done"
    /\ Statuses(reqlog) = <<"429", "429", "200">>
    /\ Len(delivered) = 2
    /\ Len(file) >= 1

\* ---------------------------------------------------------------- C8
\* C8: a transient network or HTTP error during a page request is not raised
\* to the caller: the same request is retried with the cursor, the seen-set
\* and the output file unchanged, after the first failure as after any later
\* one, and the loop leaves the retrying state only through a successful
\* response.
C8_TransientErrorRetries ==
    /\ [][Answered("transient") =>
             /\ pc' = "request"
             /\ UNCHANGED <<cursor, seen, file, exists>>]_vars
    /\ [][(pc = "request" /\ pc' \notin {"request", "killed"}) => Answered("200")]_vars
    /\ [](reqlog # <<>> /\ Last(reqlog).status = "transient"
             => (pc \in {"request", "killed"}
                 /\ (pc = "request" => cursor = Last(reqlog).cursor)))

\* After a first page, two errors in a row at the next cursor, then the page.
C8_Witness ==
    /\ Len(reqlog) = 4
    /\ Statuses(reqlog) = <<"200", "transient", "transient", "200">>
    /\ reqlog[2].cursor # Star
    /\ reqlog[4].cursor = reqlog[2].cursor
    /\ pc = "done"
    /\ Len(delivered) = 3

\* ---------------------------------------------------------------- C9
\* C9 (as stated): a non-transient HTTP error response (a 4xx status other
\* than 429) is not retried: it propagates out of the pagination loop to the
\* caller.
C9_Original == [][Answered("404") => pc' = "raised"]_vars

\* C9 (amended): a 4xx response other than 429 is caught like a transient
\* error: the loop sleeps the error cooldown and retries the same request
\* with the cursor unchanged; nothing is delivered or written and nothing
\* propagates to the caller.
C9_ClientErrorIsRetried ==
    [][Answered("404") =>
          /\ pc' = "request"
          /\ cursor' = cursor
          /\ lastSleep' = ErrorCooldown
          /\ UNCHANGED <<seen, file, exists, delivered, fetched>>]_vars

\* A 404 at a cursor other than "*" was followed by the page of that cursor.
C9_Witness ==
    /\ Len(reqlog) = 3
    /\ Statuses(reqlog) = <<"200", "404", "200">>
    /\ reqlog[2].cursor # Star
    /\ reqlog[3].cursor = reqlog[2].cursor
    /\ Len(fetched) = 3

\* ---------------------------------------------------------------- C10
\* C10: with dedupe_on_write enabled a fetched record is written if and only
\* if its identity key is empty or is not in the seen-set at that moment (and
\* is otherwise left out with the file untouched); after a record with a
\* non-empty key is written its key is in the seen-set; a record with an
\* empty key is always written, also right after an identical one.
C10_InlineDedup ==
    [][(Offered /\ dedupe_on_write) =>
          LET entry == batch[idx]
              k == IdentityKey(source, entry, hseed)
          IN  /\ (file' = Append(file, Dumps(entry))) <=> (k = "" \/ k \notin seen)
              /\ (file' # Append(file, Dumps(entry))) => (file' = file /\ seen' = seen)
              /\ (file' # file /\ k # "") => k \in seen'
              /\ k = "" => (file' = Append(file, Dumps(entry)) /\ seen' = seen)]_vars

\* Two identical keyless records of one page were both written.
C10_Witness ==
    /\ dedupe_on_write
    /\ file0 = <<>>
    /\ pc = "write"
    /\ idx = 3
    /\ batch = <<R4, R4>>
    /\ IdentityKey(source, R4, hseed) = ""
    /\ file = <<Dumps(R4), Dumps(R4)>>
    /\ seen = {}

\* ================================================================ batch passes
\* deduplicate_jsonl_path on one .jsonl file: _deduplicate_jsonl_file with
\* in_place=True, run line by line; the pass can fail part-way (an OSError of
\* a write, the process killed) and be run again, each time in a new process.
\* A run of the specification is a series of such passes, or one call of the
\* regex filter, or the start of a harvest over the file.
MaxLines == 4

MaxPasses == 2

SeqsUpTo(S, n) == UNION {[1..k -> S] : k \in 0..n}

\* Two more records without DOI and without id: R5 differs from R4 in content
\* only (a blank DOI), R6 in the title.
R5 == [DOI |-> " ", id |-> "", title |-> Str("t1")]

R6 == [DOI |-> "", id |-> "", title |-> Str("t2")]

\* Lines a JSONL file given to a batch pass can hold.
FileLines == Lines \cup {Dumps(R5), Dumps(R6), Respaced(R1)}

\* Europe PMC records with the fields _has_full_text reads: R1 with a pmcid; a
\* record flagged inEPMC; R1 with an empty full-text list and the flag inPMC
\* "N"; a record with a full-text id.
F1 == [DOI |-> "10.1/a", id |-> "MED:1", title |-> Str("t1"), pmcid |-> "PMC1"]

F2 == [DOI |-> "", id |-> "MED:2", title |-> Str("t2"), inEPMC |-> "Y"]

F3 == [DOI |-> "10.1/a", id |-> "MED:1", title |-> Str("t1"),
       fullTextIdList |-> [fullTextId |-> <<>>], inPMC |-> "N"]

F4 == [DOI |-> "", id |-> "MED:4", title |-> Str("t1"),
       fullTextIdList |-> [fullTextId |-> <<"PMC4">>]]

FullTextLines ==
    {Dumps(R1), Dumps(R4), Garbage, Dumps(F1), Dumps(F2), Dumps(F3), Dumps(F4)}

\* The lines an input file is made of: the Europe PMC filter is given files
\* of records with and without full-text fields.
InputLines(src, filters) ==
    IF src = "eupmc" /\ filters > 0 THEN FullTextLines ELSE FileLines

InitBatch ==
    /\ source \in Sources
    /\ dedupe_on_write = FALSE
    /\ dedupe_existing = FALSE
    /\ total = 0
    /\ \E budget \in {<<MaxPasses, 0, 0>>, <<0, 1, 0>>, <<0, 0, 1>>} :
          /\ passesLeft = budget[1]
          /\ filtersLeft = budget[2]
          /\ runsLeft = budget[3]
          /\ file0 \in SeqsUpTo(InputLines(source, budget[2]), MaxLines)
    /\ file = file0
    /\ exists = TRUE
    /\ errsLeft = 0
    /\ Volatile0
    /\ BatchIdle
    /\ OthersIdle
    /\ OneYear

\* temp_out = in_path.parent / (in_path.name + ".tmp") if in_place else out_path
temp_out_InPath(in_place) == "in"

temp_out(in_place) == IF in_place THEN "tmp" ELSE "out"

\* The content of the file at path after temp_out was opened with mode "w",
\* and after a line was written to it.
Truncated(path, target, content) == IF target = path THEN <<>> ELSE content

Written(path, target, content, line) ==
    IF target = path THEN Append(content, line) ELSE content

\* if doi in seen: continue
IsDuplicate_Never(k, seenKeys) == FALSE

IsDuplicate(k, seenKeys) == k \in seenKeys

\* if not doi: / if not key:
Keyless_Never(k) == FALSE

Keyless(k) == k = ""

\* The seen set after a duplicate was dropped (the code leaves it alone).
SeenAfterDrop_Forgets(k, seenKeys) == seenKeys \ {k}

SeenAfterDrop(k, seenKeys) == seenKeys

\* The with statement opens in_path for reading and temp_out for writing.
DedupOpen ==
    /\ dedup.pc \in {"idle", "raised"}
    /\ passesLeft > 0
    /\ hseed' \in (IF source = "eupmc" THEN HashSeeds ELSE {"s0"})
    /\ file' = Truncated("in", temp_out(TRUE), file)
    /\ tmp' = Truncated("tmp", temp_out(TRUE), tmp)
    /\ dedup' = [DedupIdle EXCEPT !.pc = "loop"]
    /\ passesLeft' = passesLeft - 1
    /\ UNCHANGED <<config, exists, pc, cursor, seen, batch, idx, next_cursor,
                   processed_entries, lastSleep, reqlog, fetched, delivered,
                   errsLeft, runsLeft, history, results, snaps, filtvars>>

\* One iteration of "for line in fin".
DedupLine ==
    /\ dedup.pc = "loop"
    /\ dedup.pos <= Len(file)
    /\ LET line == file[dedup.pos]
           read == [dedup EXCEPT !.pos = @ + 1, !.total = @ + 1]
       IN  IF ~Parses(line)
           THEN dedup' = read /\ UNCHANGED <<file, tmp>>
           ELSE LET obj == Loads(line)
                    k == IdentityKey(source, obj, hseed)
                    out == Dumps(obj)
                IN  IF Keyless(k)
                    THEN /\ dedup' = [read EXCEPT !.missing = @ + 1, !.kept = @ + 1]
                         /\ file' = Written("in", temp_out(TRUE), file, out)
                         /\ tmp' = Written("tmp", temp_out(TRUE), tmp, out)
                    ELSE IF IsDuplicate(k, dedup.seen)
                    THEN /\ dedup' = [read EXCEPT !.seen = SeenAfterDrop(k, @)]
                         /\ UNCHANGED <<file, tmp>>
                    ELSE /\ dedup' = [read EXCEPT !.seen = @ \cup {k}, !.kept = @ + 1]
                         /\ file' = Written("in", temp_out(TRUE), file, out)
                         /\ tmp' = Written("tmp", temp_out(TRUE), tmp, out)
    /\ UNCHANGED <<config, exists, pc, hseed, cursor, seen, batch, idx, next_cursor,
                   processed_entries, lastSleep, reqlog, fetched, delivered,
                   errsLeft, runsLeft, history, results, snaps, passesLeft, filtvars>>

\* The statistics dict of the return statement.
DedupStats_ParsedOnly(d) ==
    [total |-> d.total, kept |-> d.kept,
     duplicates |-> Cardinality(d.seen) + d.missing - d.kept, missing |-> d.missing]

DedupStats(d) ==
    [total |-> d.total, kept |-> d.kept, duplicates |-> d.total - d.kept,
     missing |-> d.missing]

\* End of input: the files are closed, Path(temp_out).replace(in_path) puts
\* the temp file in the place of the original in one step, stats are returned.
DedupReplace ==
    /\ dedup.pc = "loop"
    /\ dedup.pos > Len(file)
    /\ file' = (IF temp_out(TRUE) = "tmp" THEN tmp ELSE file)
    /\ tmp' = (IF temp_out(TRUE) = "tmp" THEN <<>> ELSE tmp)
    /\ results' = Append(results, DedupStats(dedup))
    /\ snaps' = Append(snaps, file')
    /\ dedup' = [dedup EXCEPT !.pc = "idle"]
    /\ UNCHANGED <<config, exists, pc, hseed, cursor, seen, batch, idx, next_cursor,
                   processed_entries, lastSleep, reqlog, fetched, delivered,
                   errsLeft, runsLeft, history, passesLeft, filtvars>>

\* The pass ends inside the loop with an exception or a kill: nothing is
\* replaced, the temp file stays as far as it was written.
DedupFail ==
    /\ dedup.pc = "loop"
    /\ dedup' = [dedup EXCEPT !.pc = "raised"]
    /\ UNCHANGED <<config, file, exists, pc, hseed, cursor, seen, batch, idx,
                   next_cursor, processed_entries, lastSleep, reqlog, fetched,
                   delivered, errsLeft, runsLeft, history, tmp, results, snaps,
                   passesLeft, filtvars>>

\* ---------------------------------------------------------------- regex filter
\* entry.get(name) or "" on the records of the model.
Field(entry, name) == IF name \in DOMAIN entry THEN entry[name] ELSE ""

\* The text with its letters in lower case (re.I on the letters in use).
LowerChar(c) ==
    IF c = "T" THEN "t" ELSE IF c = "X" THEN "x"
    ELSE IF c = "F" THEN "f" ELSE IF c = "O" THEN "o" ELSE c

RECURSIVE IgnoreCase(_)
IgnoreCase(t) ==
    IF t = "" THEN ""
    ELSE LowerChar(SubSeq(t, 1, 1)) \o IgnoreCase(SubSeq(t, 2, Len(t)))

Contains(p, t) ==
    \E i \in 1..(Len(t) - Len(p) + 1) : SubSeq(t, i, i + Len(p) - 1) = p

\* re.compile(p, re.I).search(text) for a pattern p without metacharacters.
Search(p, text) == Contains(IgnoreCase(p), IgnoreCase(text))

\* A dict value of the "groups" key, as the set of the values of its groups.
Dict(vals) == [dict |-> vals]

IsDict(val) == "dict" \in DOMAIN val

\* A group given as a list of pattern strings.
Pats(patterns) == List([i \in 1..Len(patterns) |-> Str(patterns[i])])

\* regex_cfg values with groups that are lists of valid patterns (scope None
\* when the key is absent or null).
WellFormedCfgs ==
    {[isdict |-> TRUE, groups |-> Dict({Pats(<<"t1">>)}), scope |-> Str("title")],
     [isdict |-> TRUE, groups |-> Dict({Pats(<<"T">>)}), scope |-> None],
     [isdict |-> TRUE, groups |-> Dict({Pats(<<"t1", "x">>), Pats(<<"2", "1">>)}),
      scope |-> Str("combined")]}

\* regex_cfg values without groups: no configuration, {} and {"groups": {}},
\* with every scope.
EmptyCfgs ==
    {NoRegexCfg} \cup
    {[isdict |-> TRUE, groups |-> g, scope |-> sc] :
        g \in {None, Dict({})},
        sc \in {None, Str("title"), Str("abstract"), Str("field"), Str("combined")}}

\* Malformed regex_cfg values: a config that is not a dict (NoRegexCfg), a
\* "groups" value that is not a dict, a group whose value is a number, a
\* number next to a well-formed group, a group given as one string, a list
\* without strings, and a pattern that does not compile.
MalformedCfgs ==
    {NoRegexCfg,
     [isdict |-> TRUE, groups |-> Num, scope |-> Str("title")],
     [isdict |-> TRUE, groups |-> Dict({Num}), scope |-> Str("title")],
     [isdict |-> TRUE, groups |-> Dict({Num, Pats(<<"t1">>)}), scope |-> Str("title")],
     [isdict |-> TRUE, groups |-> Dict({Str("t1")}), scope |-> Str("title")],
     [isdict |-> TRUE, groups |-> Dict({List(<<Num>>)}), scope |-> Str("title")],
     [isdict |-> TRUE, groups |-> Dict({Pats(<<"(">>)}), scope |-> Str("title")]}

RegexCfgs == WellFormedCfgs \cup EmptyCfgs \cup MalformedCfgs

\* re.compile(p, re.I) raises re.error on an unbalanced parenthesis.
Compiles(p) == ~Contains("(", p)

\* The pattern strings _normalize_regex_cfg keeps of a group value that is a
\* str or a list.
PatternsOf(val) ==
    IF IsStr(val) THEN {val.str}
    ELSE {val.list[i].str : i \in {j \in 1..Len(val.list) : IsStr(val.list[j])}}

\* str(val) of a scope value, lower-cased.
RECURSIVE PyStr_CaseFolded(_)
PyStr_CaseFolded(val) ==
    IF IsStr(val) THEN IgnoreCase(val.str)
    ELSE IF IsList(val)
    THEN (IF val.list = <<>> THEN "[]"
          ELSE "['" \o PyStr_CaseFolded(val.list[1]) \o "']")
    ELSE val.other

\* str(val): a str is itself, a number or bool its text, a list its repr
\* (the lists in use are empty or hold one string).
RECURSIVE PyStr(_)
PyStr(val) ==
    IF IsStr(val) THEN val.str
    ELSE IF IsList(val)
    THEN (IF val.list = <<>> THEN "[]" ELSE "['" \o PyStr(val.list[1]) \o "']")
    ELSE val.other

\* cfg.get("scope") or "field", cfg being the default configuration
\* {"groups": {}, "scope": "field"} when regex_cfg is not a dict.
ScopeOrField(cfg) ==
    IF cfg.isdict /\ Truthy(cfg.scope) THEN cfg.scope ELSE Str("field")

\* _normalize_regex_cfg: the groups (as the set of their pattern sets) and
\* the scope the filter works with.  Group values that are neither a str nor
\* a list are skipped.
normalize_regex_cfg(cfg) ==
    LET raw == IF cfg.isdict /\ IsDict(cfg.groups) THEN cfg.groups.dict ELSE {}
    IN  [groups |-> {PatternsOf(val) : val \in {g \in raw : IsStr(g) \/ IsList(g)}},
         scope |-> PyStr(ScopeOrField(cfg))]

\* _compile_patterns raises inside _normalize_regex_cfg.
normalize_raises(cfg) ==
    \E pats \in normalize_regex_cfg(cfg).groups : \E p \in pats : ~Compiles(p)

\* entry.get(name): None when the key is absent.
Get(entry, name) == IF name \in DOMAIN entry THEN entry[name] ELSE None

\* No groups is not a reason to reject.
text_matches_groups_NoGroupsPass(text, groups) ==
    /\ Truthy(text)
    /\ IsStr(text) \/ IsList(text)
    /\ \A pats \in groups : \E rx \in pats :
          Search(rx, IF IsList(text) THEN JoinStrs(text.list) ELSE text.str)

\* _text_matches_groups, for a text of any type.
text_matches_groups(text, groups) ==
    IF groups = {} THEN FALSE
    ELSE IF ~Truthy(text) THEN FALSE
    ELSE LET joined == IF IsList(text) THEN Str(JoinStrs(text.list)) ELSE text
         IN  IF ~IsStr(joined) THEN FALSE
             ELSE \A pats \in groups : \E rx \in pats : Search(rx, joined.str)

\* " ".join(x for x in (title, abstract) if x)
JoinNonEmpty(title, abstract) ==
    IF title = "" THEN abstract
    ELSE IF abstract = "" THEN title
    ELSE title \o " " \o abstract

\* Scope field is evaluated like scope combined.
matches_entry_groups_FieldAsCombined(src, entry, groups, scope) ==
    text_matches_groups(
        Str(JoinNonEmpty(text_to_str(Get(entry, "title")),
                         text_to_str(Get(entry, IF src = "crossref" THEN "abstract"
                                                    ELSE "abstractText")))),
        groups)

\* _matches_entry_groups / _eupmc_matches_entry_groups
matches_entry_groups(src, entry, groups, scope) ==
    LET title == text_to_str(Get(entry, "title"))
        abstract == text_to_str(Get(entry,
                        IF src = "crossref" THEN "abstract" ELSE "abstractText"))
    IN  IF scope = "title" THEN text_matches_groups(Str(title), groups)
        ELSE IF scope = "abstract" THEN text_matches_groups(Str(abstract), groups)
        ELSE IF scope = "field"
        THEN \/ text_matches_groups(Str(title), groups)
             \/ text_matches_groups(Str(abstract), groups)
        ELSE text_matches_groups(Str(JoinNonEmpty(title, abstract)), groups)

\* str.upper() on the flag values in use.
Upper(s) == IF s = "y" THEN "Y" ELSE IF s = "n" THEN "N" ELSE s

\* The gate lets every record through.
has_full_text_Always(entry) == TRUE

\* _has_full_text: a non-empty list fullTextIdList["fullTextId"], a pmcid,
\* or the flag inEPMC or inPMC equal to "Y" after upper().
has_full_text(entry) ==
    \/ /\ "fullTextIdList" \in DOMAIN entry
       /\ "fullTextId" \in DOMAIN entry.fullTextIdList
       /\ Len(entry.fullTextIdList.fullTextId) > 0
    \/ Field(entry, "pmcid") # ""
    \/ Upper(Field(entry, "inEPMC")) = "Y"
    \/ Upper(Field(entry, "inPMC")) = "Y"

\* json.dumps(obj) + "\n" as the filter writes it.
FilterWrites_Raw(line, obj) == line

FilterWrites(line, obj) == Dumps(obj)

\* The key of a record that does not match is remembered too.
SeenAfterMiss_Adds(k, seenKeys) == seenKeys \cup {k}

\* The seen-set of the filter after a record with key k that did not match:
\* the key is looked up and added inside "if _matches_entry_groups(...)" only.
SeenAfterMiss(k, seenKeys) == seenKeys

\* The lines regex_filter_crossref_jsonl / regex_filter_eupmc_jsonl write to
\* out_path for the lines f of in_path.
RECURSIVE FilterLines(_, _, _, _, _, _)
FilterLines(src, f, seed, norm, rft, seenKeys) ==
    IF f = <<>> THEN <<>>
    ELSE LET line == Head(f)
             skip == FilterLines(src, Tail(f), seed, norm, rft, seenKeys)
         IN  IF ~Parses(line) THEN skip
             ELSE LET obj == Loads(line)
                      k == IdentityKey(src, obj, seed)
                  IN  IF src = "eupmc" /\ rft /\ ~has_full_text(obj) THEN skip
                      ELSE IF ~matches_entry_groups(src, obj, norm.groups, norm.scope)
                      THEN FilterLines(src, Tail(f), seed, norm, rft,
                                       SeenAfterMiss(k, seenKeys))
                      ELSE IF (src = "eupmc" \/ k # "") /\ k \in seenKeys THEN skip
                      ELSE <<FilterWrites(line, obj)>> \o
                           FilterLines(src, Tail(f), seed, norm, rft,
                                       IF src = "eupmc" \/ k # ""
                                       THEN seenKeys \cup {k} ELSE seenKeys)

\* total += 1 follows json.loads: only the lines that parse are counted.
FilterTotal_AllLines(f) == Len(f)

FilterTotal(f) == Cardinality({i \in 1..Len(f) : Parses(f[i])})

\* One call of the filter on the file, with any configuration; out_path is
\* opened with mode "w".
RegexFilter ==
    /\ filtersLeft > 0
    /\ dedup.pc = "idle"
    /\ \E cfg \in RegexCfgs, rft \in (IF source = "eupmc" THEN BOOLEAN ELSE {FALSE}),
          s \in (IF source = "eupmc" THEN HashSeeds ELSE {"s0"}) :
          /\ regex_cfg' = cfg
          /\ require_full_text' = rft
          /\ hseed' = s
          /\ IF normalize_raises(cfg)
             \* re.error leaves _normalize_regex_cfg before out_path is opened.
             THEN /\ fraised' = Append(fraised, "re.error")
                  /\ UNCHANGED <<fout, fresults>>
             ELSE /\ fout' = FilterLines(source, file, s, normalize_regex_cfg(cfg),
                                         rft, {})
                  /\ fresults' = Append(fresults, [total |-> FilterTotal(file),
                                                   kept |-> Len(fout')])
                  /\ UNCHANGED fraised
    /\ filtersLeft' = filtersLeft - 1
    /\ UNCHANGED <<config, file, exists, pc, cursor, seen, batch, idx, next_cursor,
                   processed_entries, lastSleep, reqlog, fetched, delivered,
                   errsLeft, runsLeft, history, tmp, dedup, results, snaps,
                   passesLeft>>

NextBatch ==
    \/ DedupOpen
    \/ DedupLine
    \/ DedupReplace
    \/ DedupFail
    \/ RegexFilter
    \/ StartYear

SpecBatch == InitBatch /\ [][NextBatch]_vars

\* The file the n-th pass that ended had read.
PassInput(n) == IF n = 1 THEN file0 ELSE snaps[n - 1]

\* ---------------------------------------------------------------- C11
\* C11: after batch deduplication of any JSONL file, every two lines of the
\* output that have non-empty identity keys have different keys, DOI keys
\* being compared case-insensitively.
C11_DedupOutputKeysUnique ==
    \A n \in 1..Len(snaps) : UniqueKeys(source, snaps[n])

\* A pass ended on a file that held the same DOI in two letter cases and
\* kept one of the two lines.
C11_Witness ==
    /\ Len(snaps) = 1
    /\ \E i, j \in 1..Len(file0) :
          /\ i < j
          /\ file0[i] = Dumps(R1)
          /\ file0[j] = Dumps(R2)
    /\ Len(snaps[1]) < Len(file0)
    /\ Dumps(R1) \in Range(snaps[1])

\* ---------------------------------------------------------------- C12
\* C12: batch deduplication is idempotent: for every JSONL file (with
\* duplicate keys, keyless records, unparsable lines), a second pass over the
\* output of a first pass leaves a file identical to that output and reports
\* zero duplicates.
C12_DedupIdempotent ==
    \A n \in 2..Len(snaps) :
        /\ snaps[n] = snaps[n - 1]
        /\ results[n].duplicates = 0

\* Two passes ended on a Crossref file that held a DOI twice, a record
\* without DOI and an unparsable line; the first pass dropped two lines.
C12_Witness ==
    /\ Len(snaps) = 2
    /\ source = "crossref"
    /\ Garbage \in Range(file0)
    /\ Dumps(R4) \in Range(file0)
    /\ Dumps(R1) \in Range(file0)
    /\ Respaced(R1) \in Range(file0)
    /\ Len(file0) = 4
    /\ results[1].duplicates = 2
    /\ results[2].total = 2

\* ---------------------------------------------------------------- C13
\* The subsequence of f at the indices of I, in order.
RECURSIVE Pick(_, _)
Pick(f, I) ==
    IF f = <<>> THEN <<>>
    ELSE Pick(SubSeq(f, 1, Len(f) - 1), I) \o
         (IF Len(f) \in I THEN <<f[Len(f)]>> ELSE <<>>)

Objs(f) == [i \in 1..Len(f) |-> Loads(f[i])]

\* The record has no DOI (Crossref); neither DOI nor id (Europe PMC).
NoIdentity(src, obj) ==
    /\ Strip(obj.DOI) = ""
    /\ src = "eupmc" => Strip(obj.id) = ""

\* Indices of the parsable lines of f whose record has no identity.
NoIdentityAt(src, f) ==
    {i \in 1..Len(f) : Parses(f[i]) /\ NoIdentity(src, Loads(f[i]))}

\* Those of them that no earlier such record of f shares its title with.
FirstOfTitleAt(src, f) ==
    {i \in NoIdentityAt(src, f) :
        \A j \in NoIdentityAt(src, f) : j < i => Loads(f[j]).title # Loads(f[i]).title}

\* C13 (as stated): batch deduplication never drops a parsable record that has
\* no resolvable identity key (no DOI for Crossref; neither DOI nor id for
\* Europe PMC), even when another such record of the file has identical
\* content or an identical title.
C13_Original ==
    \A n \in 1..Len(snaps) :
        Pick(Objs(snaps[n]), NoIdentityAt(source, snaps[n])) =
            Pick(Objs(PassInput(n)), NoIdentityAt(source, PassInput(n)))

\* What the code does: the Crossref variant keeps every parsable record
\* without DOI; the Europe PMC variant keys a record with neither DOI nor id
\* by the hash of its title and keeps, of such records, the first of each
\* title only.
C13_FirstOfTitleKept ==
    \A n \in 1..Len(snaps) :
        Pick(Objs(snaps[n]), NoIdentityAt(source, snaps[n])) =
            Pick(Objs(PassInput(n)),
                 IF source = "crossref" THEN NoIdentityAt(source, PassInput(n))
                 ELSE FirstOfTitleAt(source, PassInput(n)))

\* A Europe PMC pass dropped a record with neither DOI nor id because an
\* earlier one had its title.
C13_Witness ==
    /\ source = "eupmc"
    /\ Len(snaps) = 1
    /\ file0 = <<Dumps(R4), Dumps(R6), Dumps(R5)>>
    /\ snaps[1] = <<Dumps(R4), Dumps(R6)>>

\* ---------------------------------------------------------------- C14
\* Indices of the parsable lines of f that are keyless or the first of f with
\* their identity key.
FirstOccurrenceAt(src, f, seed) ==
    {i \in 1..Len(f) :
        /\ Parses(f[i])
        /\ \/ KeyOfLine(src, f[i], seed) = ""
           \/ \A j \in 1..(i - 1) :
                 Parses(f[j]) => KeyOfLine(src, f[j], seed) # KeyOfLine(src, f[i], seed)}

\* C14: the output of batch deduplication is exactly the subsequence of the
\* parsable input records formed by the first occurrence of each non-empty
\* identity key together with every keyless record, in input order; lines
\* with DOI 10.1/a, DOI 10.1/A and no DOI yield the first and the third.
C14_FirstOccurrencesInOrder ==
    \A n \in 1..Len(snaps) : \A s \in HashSeeds :
        Objs(snaps[n]) = Pick(Objs(PassInput(n)), FirstOccurrenceAt(source, PassInput(n), s))

\* The pass over the three lines of the example ended with two lines.
C14_Witness ==
    /\ source = "crossref"
    /\ file0 = <<Dumps(R1), Dumps(R2), Dumps(R4)>>
    /\ Len(snaps) = 1
    /\ snaps[1] = <<Dumps(R1), Dumps(R4)>>
    /\ results[1].kept = 2

\* ---------------------------------------------------------------- C15
\* Indices of the parsable lines of f dropped because their key was seen.
DroppedAsDuplicateAt(src, f, seed) ==
    {i \in 1..Len(f) : Parses(f[i])} \ FirstOccurrenceAt(src, f, seed)

UnparsableAt(f) == {i \in 1..Len(f) : ~Parses(f[i])}

KeylessAt(src, f, seed) ==
    {i \in 1..Len(f) : Parses(f[i]) /\ KeyOfLine(src, f[i], seed) = ""}

\* C15 (as stated): the statistics of a pass have total = lines read, kept =
\* lines written, duplicates = total - kept = records dropped because their
\* key was already seen, and the missing-key count = parsed records lacking
\* an identity key, for both variants and for files with unparsable lines.
C15_Original ==
    \A n \in 1..Len(snaps) : \A s \in HashSeeds :
        /\ results[n].total = Len(PassInput(n))
        /\ results[n].kept = Len(snaps[n])
        /\ results[n].duplicates = results[n].total - results[n].kept
        /\ results[n].duplicates =
               Cardinality(DroppedAsDuplicateAt(source, PassInput(n), s))
        /\ results[n].missing = Cardinality(KeylessAt(source, PassInput(n), s))

\* C15 (amended): total = lines read, kept = lines written, duplicates =
\* total - kept = records dropped because their key was already seen plus
\* lines that do not parse, missing-key count = parsed records for which the
\* variant computes no key (for Europe PMC there is none).
C15_StatsCountUnparsable ==
    \A n \in 1..Len(snaps) : \A s \in HashSeeds :
        /\ results[n].total = Len(PassInput(n))
        /\ results[n].kept = Len(snaps[n])
        /\ results[n].duplicates = results[n].total - results[n].kept
        /\ results[n].duplicates =
               Cardinality(DroppedAsDuplicateAt(source, PassInput(n), s))
               + Cardinality(UnparsableAt(PassInput(n)))
        /\ results[n].missing = Cardinality(KeylessAt(source, PassInput(n), s))

\* A pass over an unparsable line and one record reported one duplicate.
C15_Witness ==
    /\ file0 = <<Garbage, Dumps(R1)>>
    /\ Len(snaps) = 1
    /\ snaps[1] = <<Dumps(R1)>>
    /\ results[1] = [total |-> 2, kept |-> 1, duplicates |-> 1, missing |-> 0]

\* ---------------------------------------------------------------- C16
\* C16: in-place batch deduplication replaces the original atomically: at
\* every intermediate state of the operation, also when it fails part-way, the
\* original path holds either the complete original content or the complete
\* deduplicated content, never a partially written file.
C16_InPlaceAtomic ==
    /\ [](file = (IF snaps = <<>> THEN file0 ELSE Last(snaps)))
    /\ [][\/ file' = file
          \/ /\ dedup.pc = "loop"
             /\ dedup.pos > Len(file)
             /\ file' = deduplicate_jsonl_file(source, file, hseed)]_vars

\* A pass failed after writing one of the two lines of its output to the temp
\* file; the original path still holds the original three lines.
C16_Witness ==
    /\ dedup.pc = "raised"
    /\ snaps = <<>>
    /\ Len(file0) = 3
    /\ Len(deduplicate_jsonl_file(source, file0, hseed)) = 2
    /\ Len(tmp) = 1
    /\ file = file0

\* ---------------------------------------------------------------- C17
ParsableAt(f) == {i \in 1..Len(f) : Parses(f[i])}

\* out consists of lines of in, unchanged and in their order.
WholeLinesOf(out, in) == \E I \in SUBSET (1..Len(in)) : out = Pick(in, I)

\* out consists of the json.dumps texts of records parsed from lines of in,
\* in their order.
Reserialized(f) == [i \in 1..Len(f) |-> Dumps(Loads(f[i]))]

DumpsOfLinesOf(out, in) ==
    \E I \in SUBSET ParsableAt(in) : out = Pick(Reserialized(in), I)

\* C17 (as stated): batch deduplication and regex filtering never mutate line
\* content: every line they write is byte-identical to the input line it was
\* kept from; they only include or exclude whole lines.
C17_Original ==
    /\ \A n \in 1..Len(snaps) : WholeLinesOf(snaps[n], PassInput(n))
    /\ fresults # <<>> => WholeLinesOf(fout, file0)

\* C17 (amended): every line they write is json.dumps of the record parsed
\* from the input line it was kept from, in input order: byte-identical to
\* that line when the line is itself a json.dumps text (as every line the
\* harvest writes is), the same JSON value in another text otherwise.
C17_LinesReserialized ==
    /\ \A n \in 1..Len(snaps) : DumpsOfLinesOf(snaps[n], PassInput(n))
    /\ fresults # <<>> => DumpsOfLinesOf(fout, file0)

\* The filter kept the record of a line that was not in json.dumps form and
\* one of a line that was; the first is written re-serialised.
C17_Witness ==
    /\ fresults # <<>>
    /\ file0 = <<Respaced(R1), Dumps(R4)>>
    /\ fout = <<Dumps(R1), Dumps(R4)>>

\* ---------------------------------------------------------------- C18
\* The file without its lines that do not parse.
Clean(f) == Pick(f, ParsableAt(f))

\* Unparsable lines reach no output and change none: the dedup output, the
\* filter output and the loaded key set are those of the file without them,
\* and the step that reads such a line writes nothing and stays in the loop.
UnparsableSkipped ==
    /\ [](\A n \in 1..Len(snaps) :
             /\ \A i \in 1..Len(snaps[n]) : Parses(snaps[n][i])
             /\ \A s \in HashSeeds :
                   snaps[n] = deduplicate_jsonl_file(source, Clean(PassInput(n)), s))
    /\ [](fresults # <<>> =>
             /\ \A i \in 1..Len(fout) : Parses(fout[i])
             /\ fout = FilterLines(source, Clean(file0), hseed,
                                   normalize_regex_cfg(regex_cfg), require_full_text, {}))
    /\ [](pc = "request" => seen = LoadKeys(source, Clean(file0), hseed))
    /\ [][(dedup.pc = "loop" /\ dedup'.pos = dedup.pos + 1 /\ ~Parses(file[dedup.pos]))
             => (dedup'.pc = "loop" /\ tmp' = tmp /\ file' = file)]_vars

\* The total of the n-th pass counts the lines that do not parse as well.
DedupCountsReflect(n) == results[n].total = Len(Clean(PassInput(n))) +
                                            Cardinality(UnparsableAt(PassInput(n)))

InitYears ==
    /\ source \in Sources
    /\ dedupe_on_write \in BOOLEAN
    /\ dedupe_existing = FALSE
    /\ total = 0
    /\ file0 = <<>>
    /\ file = <<>>
    /\ exists = FALSE
    /\ errsLeft = 1
    /\ runsLeft = 0
    /\ Volatile0
    /\ BatchIdle
    /\ OthersIdle
    /\ passesLeft = 0
    /\ filtersLeft = 0
    /\ start_year \in Years
    /\ end_year \in Years
    /\ year = start_year - 1
    /\ output_file = ""
    /\ disk \in [Partitions -> {<<>>, <<Dumps(R1)>>}]
    /\ present = {p \in Partitions : disk[p] # <<>>}
    /\ started = <<>>

\* The next iteration of "for year in range(start_year, end_year + 1)": the
\* partition of the year becomes the output file, its keys are loaded, the
\* cursor starts at the sentinel.  The API holds any number of records for
\* the query of the year.
EnterYear ==
    /\ pc \in {"idle", "done"}
    /\ year < end_year
    /\ year' = year + 1
    /\ started' = Append(started, year')
    /\ output_file' = PartitionPath(year')
    /\ disk' = (IF output_file = "" THEN disk ELSE [disk EXCEPT ![output_file] = file])
    /\ present' = (IF output_file # "" /\ exists THEN present \cup {output_file}
                   ELSE present)
    /\ exists' = (output_file' \in present')
    /\ file0' = disk'[output_file']
    /\ \E raises \in BOOLEAN :
          file' = (IF exists' THEN CompactedFile(source, file0', hseed, dedupe_existing, raises)
                   ELSE file0')
    /\ seen' = (IF exists' THEN LoadKeys(source, file', hseed) ELSE {})
    /\ total' \in 0..MaxHarvest
    /\ cursor' = FirstCursor(cursor)
    /\ processed_entries' = 0
    /\ batch' = <<>>
    /\ idx' = 1
    /\ next_cursor' = NoCursor
    /\ lastSleep' = 0
    /\ reqlog' = <<>>
    /\ fetched' = <<>>
    /\ delivered' = <<>>
    /\ pc' = "request"
    /\ UNCHANGED <<source, dedupe_on_write, dedupe_existing, start_year, end_year,
                   othervars, batchvars, hseed, errsLeft, runsLeft, history>>

\* An exception that is not a requests.exceptions.RequestException (an OSError
\* of open or write, an AttributeError on a malformed payload) is raised
\* while the year is paginated or written: no handler of cursor_yearly_dump
\* catches it, the call ends.
YearRaises ==
    /\ pc \in {"request", "write"}
    /\ pc' = "raised"
    /\ UNCHANGED <<config, batchvars, file, exists, hseed, cursor, seen, batch, idx,
                   next_cursor, processed_entries, lastSleep, reqlog, fetched,
                   delivered, errsLeft, runsLeft, history>>

\* A name assigned only in the body of the for loop (year, seen_dois) is bound
\* after the loop if the body ran at least once.
Bound(iterations) == iterations # <<>>

\* "for year in range(start_year, end_year + 1)" is exhausted and the
\* statement after the loop runs.  Crossref prints year and len(seen_dois),
\* which raises UnboundLocalError when the body never ran; Europe PMC prints
\* a constant text.  The call ends.
YearsReturn ==
    /\ pc \in {"idle", "done"}
    /\ year >= end_year
    /\ pc' = (IF source = "crossref" /\ ~Bound(started) THEN "raised" ELSE "returned")
    /\ UNCHANGED <<config, batchvars, file, exists, hseed, cursor, seen, batch, idx,
                   next_cursor, processed_entries, lastSleep, reqlog, fetched,
                   delivered, errsLeft, runsLeft, history>>

NextYears ==
    \/ EnterYear
    \/ YearsReturn
    \/ RateLimited
    \/ RequestFailed
    \/ RequestOK
    \/ WriteEntry
    \/ EndPage
    \/ YearRaises

SpecYears == InitYears /\ [][NextYears]_vars

\* The lines of the partition file at path.
FileAt(path) == IF path = output_file THEN file ELSE disk[path]

\* ---------------------------------------------------------------- C19
\* C19 (as stated): an error raised while one year is paginated or written
\* does not abort the other years: when cursor_yearly_dump has ended, every
\* year of start_year..end_year has been processed.
C19_Original == pc = "raised" => year = end_year

\* What the code does: a failed request is retried within the year and the
\* loop goes on to the later years; any other exception ends the call in the
\* year it was raised in.
C19_OnlyRequestErrorsSurvive ==
    /\ [][Answered("transient") \/ Answered("404") \/ Answered("429")
             => (pc' = "request" /\ year' = year)]_vars
    /\ [][pc = "raised" => FALSE]_vars

\* The call ended in the first of two years on an exception raised while a
\* record of a fetched page was to be written.
C19_Witness ==
    /\ pc = "raised"
    /\ start_year < end_year
    /\ year = start_year
    /\ Len(batch) > 0
    /\ idx <= Len(batch)

\* ---------------------------------------------------------------- C20
\* The name the partition of year y has in out_dir.
DumpsName(y) == "dumps_" \o ToString(y) \o ".jsonl"

MaxPeerYears == 3

PeerYears == FirstYear..(FirstYear + MaxPeerYears - 1)

PeerPartitions == {PartitionPath(y) : y \in PeerYears}

Peers == {1, 2}

\* What the API holds for a year: nothing, one record, two records of one
\* DOI, a keyless record followed by a repeated one (two pages).
ServedLists == {<<>>, <<R1>>, <<R1, R2>>, <<R3, R1, R1>>}

\* The locals of a run before its first year.
PeerStart(lo, hi, seed) ==
    [start_year |-> lo, end_year |-> hi, year |-> lo - 1, output_file |-> "",
     pc |-> "loop", hseed |-> seed, cursor |-> Star, seen |-> {}, batch |-> <<>>,
     idx |-> 1, next_cursor |-> NoCursor]

InitPeers ==
    /\ source \in Sources
    /\ dedupe_on_write \in BOOLEAN
    /\ dedupe_existing = FALSE
    /\ total = 0
    /\ file0 = <<>>
    /\ file = <<>>
    /\ exists = FALSE
    /\ errsLeft = 0
    /\ runsLeft = 0
    /\ Volatile0
    /\ BatchIdle
    /\ passesLeft = 0
    /\ filtersLeft = 0
    /\ start_year = FirstYear
    /\ end_year = FirstYear + MaxPeerYears - 1
    /\ year = FirstYear
    /\ output_file = ""
    /\ disk = [p \in PeerPartitions |-> <<>>]
    /\ present = {}
    /\ started = <<>>
    /\ served \in [PeerYears -> ServedLists]
    /\ call = NoCall
    /\ NoDir
    /\ NoParams
    /\ LateIdle
    /\ \E split \in start_year..(end_year - 1) :
          peers = <<PeerStart(start_year, split, "s0"),
                    PeerStart(split + 1, end_year, "s1")>>

\* The next iteration of "for year in range(start_year, end_year + 1)" of run
\* p: the partition of the year is its output file, the keys of that file are
\* loaded into a new seen-set, the cursor starts at the sentinel.
PeerEnterYear(p) ==
    LET me == peers[p]
        y == me.year + 1
        path == PartitionPath(y)
    IN  /\ me.pc = "loop"
        /\ me.year < me.end_year
        /\ peers' = [peers EXCEPT ![p] =
              [me EXCEPT !.year = y, !.output_file = path,
                         !.seen = (IF path \in present
                                   THEN LoadKeys(source, disk[path], me.hseed)
                                   ELSE {}),
                         !.cursor = Star, !.batch = <<>>, !.idx = 1,
                         !.next_cursor = NoCursor, !.pc = "request"]]
        /\ UNCHANGED <<disk, present>>

\* The loop of run p has no year left: the call returns.
PeerReturn(p) ==
    LET me == peers[p]
    IN  /\ me.pc = "loop"
        /\ me.year >= me.end_year
        /\ peers' = [peers EXCEPT ![p] = [me EXCEPT !.pc = "returned"]]
        /\ UNCHANGED <<disk, present>>

\* A 200 response to run p: the next page of the records of its year.
\* Crossref opens the output file for append before looping over the page.
PeerRequestOK(p) ==
    LET me == peers[p]
        pos == Position(me.cursor)
        n == Min(PageSize, Len(served[me.year]) - pos)
    IN  /\ me.pc = "request"
        /\ peers' = [peers EXCEPT ![p] =
              [me EXCEPT !.batch = SubSeq(served[me.year], pos + 1, pos + n),
                         !.next_cursor = Token(pos + n), !.idx = 1,
                         !.pc = "write"]]
        /\ present' = (IF source = "crossref" THEN present \cup {me.output_file}
                       ELSE present)
        /\ UNCHANGED disk

\* One entry of the page of run p is offered to the writer.
PeerWriteEntry(p) ==
    LET me == peers[p]
        entry == me.batch[me.idx]
        k == IdentityKey(source, entry, me.hseed)
    IN  /\ me.pc = "write"
        /\ me.idx <= Len(me.batch)
        /\ IF SkipsEntry(source, dedupe_on_write, k, me.seen)
           THEN /\ peers' = [peers EXCEPT ![p] = [me EXCEPT !.idx = me.idx + 1]]
                /\ UNCHANGED <<disk, present>>
           ELSE /\ peers' = [peers EXCEPT ![p] =
                      [me EXCEPT !.idx = me.idx + 1,
                                 !.seen = SeenAfter(source, dedupe_on_write, k,
                                                    me.seen)]]
                /\ disk' = [disk EXCEPT ![me.output_file] =
                               Append(disk[me.output_file], Dumps(entry))]
                /\ present' = present \cup {me.output_file}

\* The page of run p is written: the year ends, or the next cursor is taken.
PeerEndPage(p) ==
    LET me == peers[p]
    IN  /\ me.pc = "write"
        /\ BatchExhausted(me.idx, me.batch)
        /\ peers' = [peers EXCEPT ![p] =
              IF Continues(me.batch, PageSize, me.next_cursor)
              THEN [me EXCEPT !.cursor = me.next_cursor, !.pc = "request"]
              ELSE [me EXCEPT !.pc = "loop"]]
        /\ UNCHANGED <<disk, present>>

peerframe == <<source, dedupe_on_write, dedupe_existing, total, file0, file, exists,
               pc, hseed, cursor, seen, batch, idx, next_cursor, processed_entries,
               lastSleep, reqlog, fetched, delivered, errsLeft, runsLeft, history,
               batchvars, start_year, end_year, year, output_file, started, served,
               call, dirvars, params, latevars>>

NextPeers ==
    \/ \E p \in Peers : PeerEnterYear(p) /\ UNCHANGED peerframe
    \/ \E p \in Peers : PeerRequestOK(p) /\ UNCHANGED peerframe
    \/ \E p \in Peers : PeerWriteEntry(p) /\ UNCHANGED peerframe
    \/ \E p \in Peers : PeerEndPage(p) /\ UNCHANGED peerframe
    \/ \E p \in Peers : PeerReturn(p) /\ UNCHANGED peerframe

SpecPeers == InitPeers /\ [][NextPeers]_vars

\* What one run alone appends to the lines f when it is offered the records
\* recs in order, starting from the seen-set seenKeys.
RECURSIVE Harvested(_, _, _, _, _, _)
Harvested(src, dow, seed, f, seenKeys, recs) ==
    IF recs = <<>> THEN f
    ELSE LET k == IdentityKey(src, Head(recs), seed)
         IN  IF SkipsEntry(src, dow, k, seenKeys)
             THEN Harvested(src, dow, seed, f, seenKeys, Tail(recs))
             ELSE Harvested(src, dow, seed, Append(f, Dumps(Head(recs))),
                            SeenAfter(src, dow, k, seenKeys), Tail(recs))

\* The partition of year y after one run over all the years, in year order:
\* each year starts from an absent file and an empty seen-set.
SequentialPartition(y) ==
    Harvested(source, dedupe_on_write, "s0", <<>>, {}, served[y])

\* The runs that are inside year y.
PeersIn(y) == {p \in Peers : peers[p].year = y /\ peers[p].pc \in {"request", "write"}}

\* Year y was harvested to the end by its run.
YearDone(y) ==
    \E p \in Peers :
       /\ peers[p].start_year <= y
       /\ \/ y < peers[p].year
          \/ y = peers[p].year /\ peers[p].pc \in {"loop", "returned"}

\* C21: two runs over one out_dir with disjoint year ranges never write to
\* the same file (at no time do both have the same output file, and a step
\* changes only the partition of the year of the run that takes it), and
\* every partition ends with the content a single run over all the years
\* gives it: each year starts from its own seen-set, so a record whose key is
\* in another year's partition is written again.
C21_DisjointRangesNeverShareAFile ==
    /\ [](\A p, q \in Peers :
            (p # q /\ peers[p].output_file # "") =>
               peers[p].output_file # peers[q].output_file)
    /\ [][\A path \in PeerPartitions :
            (path \in DOMAIN disk /\ disk'[path] = disk[path])
            \/ \E p \in Peers :
                  /\ peers[p].pc = "write"
                  /\ peers[p].year \in peers[p].start_year..peers[p].end_year
                  /\ path = "dumps_" \o ToString(peers[p].year) \o ".jsonl"
                  /\ peers'[p].idx = peers[p].idx + 1]_vars
    /\ [](\A y \in PeerYears :
            YearDone(y) =>
               LET path == "dumps_" \o ToString(y) \o ".jsonl"
               IN  path \in DOMAIN disk /\ disk[path] = SequentialPartition(y))

\* Both runs have returned, under dedupe_on_write, and the record R1 that one
\* run wrote into its partition was written again by the other run into the
\* partition of a later year.
C21_Witness ==
    /\ dedupe_on_write
    /\ \A p \in Peers : peers # <<>> /\ peers[p].pc = "returned"
    /\ \E y1, y2 \in PeerYears :
          /\ y1 <= peers[1].end_year
          /\ y2 >= peers[2].start_year
          /\ Dumps(R1) \in Range(disk[PartitionPath(y1)])
          /\ Dumps(R1) \in Range(disk[PartitionPath(y2)])

\* ---------------------------------------------------------------- matching
\* The match functions called on their own: _text_matches_groups on the
\* title value of an entry, _matches_entry_groups / _eupmc_matches_entry_groups
\* on the entry, for compiled groups and a scope.
TextValues ==
    {None, Num, Str(""), Str("foo"), Str("bar"), Str("Foo Bar"),
     List(<<>>), List(<<Num>>), List(<<Str("foo"), Num, Str("bar")>>)}

\* Compiled groups: none; A:[foo]; A:[foo], B:[bar]; A:[foo, bar]; a pattern
\* that matches the empty string; a pattern across the joining space; a
\* pattern that only a join without space would satisfy.
GroupSets ==
    {{}, {{"foo"}}, {{"foo"}, {"bar"}}, {{"foo", "bar"}}, {{""}}, {{"o b"}},
     {{"foobar"}}}

Scopes == {"title", "abstract", "field", "combined", "all"}

\* An entry with the two text fields of its source.
Entry(src, title, abstract) ==
    IF src = "crossref" THEN [title |-> title, abstract |-> abstract]
    ELSE [title |-> title, abstractText |-> abstract]

InitMatch ==
    /\ source \in Sources
    /\ dedupe_on_write = FALSE
    /\ dedupe_existing = FALSE
    /\ total = 0
    /\ file0 = <<>>
    /\ file = <<>>
    /\ exists = FALSE
    /\ errsLeft = 0
    /\ runsLeft = 0
    /\ Volatile0
    /\ BatchIdle
    /\ passesLeft = 0
    /\ filtersLeft = 0
    /\ OneYear
    /\ PeersIdle
    /\ NoDir
    /\ NoParams
    /\ LateIdle
    /\ \E title \in TextValues, abstract \in TextValues, groups \in GroupSets,
          scope \in Scopes :
          call = [entry |-> Entry(source, title, abstract), groups |-> groups,
                  scope |-> scope, returned |-> {}]

\* _text_matches_groups(entry.get("title"), groups) returns.
TextMatches ==
    /\ "text" \notin {r.fn : r \in call.returned}
    /\ call' = [call EXCEPT !.returned = @ \cup
          {[fn |-> "text",
            value |-> text_matches_groups(Get(call.entry, "title"), call.groups)]}]

\* _matches_entry_groups(entry, groups, scope) returns.
EntryMatches ==
    /\ "entry" \notin {r.fn : r \in call.returned}
    /\ call' = [call EXCEPT !.returned = @ \cup
          {[fn |-> "entry",
            value |-> matches_entry_groups(source, call.entry, call.groups,
                                           call.scope)]}]

matchframe == <<source, dedupe_on_write, dedupe_existing, total, file0, file, exists,
                pc, hseed, cursor, seen, batch, idx, next_cursor, processed_entries,
                lastSleep, reqlog, fetched, delivered, errsLeft, runsLeft, history,
                batchvars, yearvars, peervars, dirvars, params, latevars>>

NextMatch ==
    \/ TextMatches /\ UNCHANGED matchframe
    \/ EntryMatches /\ UNCHANGED matchframe

SpecMatch == InitMatch /\ [][NextMatch]_vars

\* What a call returned, when it has returned.
Returned(fn) == {r.value : r \in {x \in call.returned : x.fn = fn}}

\* Every group has a pattern that finds a match in the string t.
EveryGroupFinds(groups, t) ==
    \A pats \in groups : \E rx \in pats : Contains(IgnoreCase(rx), IgnoreCase(t))

\* The text of a value as the claim reads it: the strings of a list joined
\* by single spaces, a string itself, the empty text for anything else.
TextOf(val) ==
    IF "list" \in DOMAIN val
    THEN LET strs == SelectSeq(val.list, LAMBDA x : "str" \in DOMAIN x)
             RECURSIVE Joined(_)
             Joined(i) == IF i > Len(strs) THEN ""
                          ELSE IF i = Len(strs) THEN strs[i].str
                          ELSE strs[i].str \o " " \o Joined(i + 1)
         IN  Joined(1)
    ELSE IF "str" \in DOMAIN val THEN val.str
    ELSE ""

\* C22 as stated: with at least one group, a text matches iff every group
\* has a pattern that finds a case-insensitive match in the text, the text of
\* a list being its strings joined by single spaces and the text of any other
\* non-string value being empty.
C22_Original ==
    call.groups # {} =>
       Returned("text") \subseteq
          {EveryGroupFinds(call.groups, TextOf(Get(call.entry, "title")))}

\* C22: as stated for every text that is not empty; a value whose text is
\* empty never matches, whatever the patterns, except a non-empty list
\* without strings, which matches iff every group has a pattern that matches
\* the empty string.
C22_NonEmptyTextMatchesIffEveryGroup ==
    LET val == Get(call.entry, "title")
        empty == TextOf(val) = ""
        bare == "list" \in DOMAIN val /\ val.list # <<>>
    IN  call.groups # {} =>
           Returned("text") \subseteq
              {(~empty \/ bare) /\ EveryGroupFinds(call.groups, TextOf(val))}

\* The match of a list with a non-string item was computed, for two groups
\* that its two strings satisfy and for a pattern across the joining space.
C22_Witness ==
    /\ Get(call.entry, "title") = List(<<Str("foo"), Num, Str("bar")>>)
    /\ call.groups \in {{{"foo"}, {"bar"}}, {{"o b"}}}
    /\ Returned("text") = {TRUE}

\* ---------------------------------------------------------------- C23
\* The title and the abstract of the entry of the call, as texts.
CallTitle == TextOf(Get(call.entry, "title"))

CallAbstract ==
    TextOf(Get(call.entry, IF source = "crossref" THEN "abstract" ELSE "abstractText"))

\* The text t alone satisfies every group of the call.
AloneSatisfies(t) == t # "" /\ call.groups # {} /\ EveryGroupFinds(call.groups, t)

FooAndBar == {{"foo"}, {"bar"}}

\* C23: under scope field an entry is relevant iff its title alone or its
\* abstract alone satisfies every group; under scope combined the title and
\* the abstract joined by one space are evaluated once.  With groups A:[foo],
\* B:[bar], title "foo" and abstract "bar" match under combined and not under
\* field, and "foo" in both fields matches under neither.
C23_FieldVersusCombined ==
    /\ call.scope = "field" =>
          Returned("entry") \subseteq
             {AloneSatisfies(CallTitle) \/ AloneSatisfies(CallAbstract)}
    /\ call.scope = "combined" =>
          Returned("entry") \subseteq
             {AloneSatisfies(IF CallTitle = "" THEN CallAbstract
                             ELSE IF CallAbstract = "" THEN CallTitle
                             ELSE CallTitle \o " " \o CallAbstract)}
    /\ (call.groups = FooAndBar /\ CallTitle = "foo" /\ CallAbstract = "bar") =>
          /\ call.scope = "combined" => Returned("entry") \subseteq {TRUE}
          /\ call.scope = "field" => Returned("entry") \subseteq {FALSE}
    /\ (call.groups = FooAndBar /\ CallTitle = "foo" /\ CallAbstract = "foo") =>
          (call.scope \in {"combined", "field"} => Returned("entry") \subseteq {FALSE})

\* The entry with title "foo" and abstract "bar" was matched against the two
\* groups under scope combined, and was found relevant.
C23_Witness ==
    /\ call.groups = FooAndBar
    /\ call.scope = "combined"
    /\ CallTitle = "foo"
    /\ CallAbstract = "bar"
    /\ Returned("entry") = {TRUE}

\* ---------------------------------------------------------------- C24
\* The configuration of the filter call names no group: it is no dict, or its
\* "groups" value is absent or an empty dict.
NoGroupsGiven(cfg) == ~cfg.isdict \/ cfg.groups = None \/ cfg.groups = Dict({})

\* The filter call has ended, by a return or by an exception.
FilterEnded == fresults # <<>> \/ fraised # <<>>

\* C24: applied with an empty configuration (no configuration, {} or a dict
\* without groups), the regex filter keeps zero records, for every input file
\* and every scope.
C24_EmptyConfigKeepsNothing ==
    (FilterEnded /\ NoGroupsGiven(regex_cfg)) =>
       /\ fraised = <<>>
       /\ fout = <<>>
       /\ fresults[1].kept = 0

\* The filter ran with {"groups": {}, "scope": "combined"} over a file with
\* two records that parse, and kept none.
C24_Witness ==
    /\ regex_cfg = [isdict |-> TRUE, groups |-> Dict({}), scope |-> Str("combined")]
    /\ fresults # <<>>
    /\ fresults[1].total = 2
    /\ fout = <<>>

\* ---------------------------------------------------------------- C25
\* A group value that is a list of pattern strings that compile.
WellFormedGroup(val) ==
    /\ "list" \in DOMAIN val
    /\ \A i \in 1..Len(val.list) :
          "str" \in DOMAIN val.list[i] /\ ~Contains("(", val.list[i].str)

\* The configuration is malformed: not a dict, a "groups" value that is not a
\* dict, or a group that is not a list of valid pattern strings.
Malformed(cfg) ==
    \/ ~cfg.isdict
    \/ cfg.groups # None /\ "dict" \notin DOMAIN cfg.groups
    \/ "dict" \in DOMAIN cfg.groups /\ \E val \in cfg.groups.dict : ~WellFormedGroup(val)

\* C25: a malformed regex configuration is not an error and fails closed: the
\* filter raises nothing and rejects every record.
C25_Original ==
    (FilterEnded /\ Malformed(regex_cfg)) =>
       /\ fraised = <<>>
       /\ fout = <<>>

\* The filter was called with a pattern that does not compile and ended with
\* re.error, returning no stats.
C25_Witness ==
    /\ regex_cfg = [isdict |-> TRUE, groups |-> Dict({Pats(<<"(">>)}), scope |-> Str("title")]
    /\ fraised = <<"re.error">>
    /\ fresults = <<>>

\* ---------------------------------------------------------------- C26
\* The record of line i of f passes the full-text gate of the call and
\* matches its configuration.
Selected(f, i) ==
    /\ Parses(f[i])
    /\ (source = "eupmc" /\ require_full_text) => has_full_text(Loads(f[i]))
    /\ LET norm == normalize_regex_cfg(regex_cfg)
       IN  matches_entry_groups(source, Loads(f[i]), norm.groups, norm.scope)

\* The selected lines that are the first selected line of their key, or
\* have no key.
FirstSelectedAt(f) ==
    {i \in 1..Len(f) :
        /\ Selected(f, i)
        /\ \/ KeyOfLine(source, f[i], hseed) = ""
           \/ \A j \in 1..(i - 1) :
                 Selected(f, j) =>
                    KeyOfLine(source, f[j], hseed) # KeyOfLine(source, f[i], hseed)}

\* C26: the output of the regex filter holds exactly the matching records in
\* input order, only the first matching record of each non-empty identity
\* key; a record that does not match never enters the seen-set, so it does
\* not suppress a later matching record of its key.
C26_FirstMatchingPerKey ==
    fresults # <<>> => Objs(fout) = Pick(Objs(file0), FirstSelectedAt(file0))

\* The Crossref filter for titles with "t1" ran over a record that does not
\* match, followed twice by a matching record of the same DOI: the output is
\* the first matching record.
C26_Witness ==
    /\ source = "crossref"
    /\ file0 = <<Dumps(R2), Dumps(R1), Dumps(R1)>>
    /\ regex_cfg = [isdict |-> TRUE, groups |-> Dict({Pats(<<"t1">>)}), scope |-> Str("title")]
    /\ fresults = <<[total |-> 3, kept |-> 1]>>
    /\ fout = <<Dumps(R1)>>

\* ---------------------------------------------------------------- C29
\* The record shows evidence of full text: a non-empty fullTextIdList
\* .fullTextId, a pmcid, or inEPMC / inPMC equal to Y.
Evidence(obj) ==
    \/ /\ "fullTextIdList" \in DOMAIN obj
       /\ obj.fullTextIdList.fullTextId # <<>>
    \/ "pmcid" \in DOMAIN obj /\ obj.pmcid # ""
    \/ "inEPMC" \in DOMAIN obj /\ obj.inEPMC = "Y"
    \/ "inPMC" \in DOMAIN obj /\ obj.inPMC = "Y"

\* The lines of f that do not parse or whose record shows evidence.
WithoutGated(f) == Pick(f, {i \in 1..Len(f) : Parses(f[i]) => Evidence(Loads(f[i]))})

\* C29: with require_full_text, the Europe PMC filter writes a record only if
\* it shows evidence of full text; a record that fails the gate is dropped
\* whatever the regex says, is not added to the seen-set (the output is the
\* one of the filter without the gate on the file without such records) and
\* is counted in total.
C29_FullTextGate ==
    (source = "eupmc" /\ require_full_text /\ fresults # <<>>) =>
       /\ \A i \in 1..Len(fout) : Evidence(Loads(fout[i]))
       /\ fout = FilterLines(source, WithoutGated(file0), hseed,
                             normalize_regex_cfg(regex_cfg), FALSE, {})
       /\ fresults[1].total = Cardinality({i \in 1..Len(file0) : Parses(file0[i])})

\* The gated filter for titles with "t1" ran over R1 without full text and
\* then the record of the same DOI with a pmcid: only the second was written,
\* both were counted.
C29_Witness ==
    /\ source = "eupmc"
    /\ require_full_text
    /\ file0 = <<Dumps(R1), Dumps(F1)>>
    /\ regex_cfg = [isdict |-> TRUE, groups |-> Dict({Pats(<<"t1">>)}), scope |-> Str("title")]
    /\ fout = <<Dumps(F1)>>
    /\ fresults = <<[total |-> 2, kept |-> 1]>>

\* ---------------------------------------------------------------- batch filter
\* regex_filter_crossref_from_params / regex_filter_eupmc_from_params over a
\* directory of at most MaxDirFiles files.
MaxDirFiles == 3

\* The file names a directory can hold, in the order sorted() gives them.
DirNames ==
    <<"2019_extra.jsonl", "dumps_2019.jsonl", "dumps_20191.jsonl", "dumps_2020.jsonl",
      "misc.jsonl", "notes.jsonl", "readme.txt", "v12_2020.jsonl">>

DirContents == {<<>>, <<Dumps(R1)>>, <<Dumps(R2), Garbage>>}

\* child.suffix == ".jsonl"
IsJsonl(name) == Len(name) > 6 /\ SubSeq(name, Len(name) - 5, Len(name)) = ".jsonl"

IsDigit(c) == c \in {"0", "1", "2", "3", "4", "5", "6", "7", "8", "9"}

\* The token is taken from the end of the name.
RECURSIVE YearToken_FromEnd(_, _)
YearToken_FromEnd(name, i) ==
    LET k == Len(name) - i - 2
    IN  IF k < 1 THEN "unknown"
        ELSE IF \A j \in k..(k + 3) : IsDigit(SubSeq(name, j, j))
        THEN SubSeq(name, k, k + 3)
        ELSE YearToken_FromEnd(name, i + 1)

\* re.search(r"(\d{4})", name) scanning from position i: group(1) of the
\* leftmost match, or "unknown".
RECURSIVE YearToken(_, _)
YearToken(name, i) ==
    IF i + 3 > Len(name) THEN "unknown"
    ELSE IF \A j \in i..(i + 3) : IsDigit(SubSeq(name, j, j))
    THEN SubSeq(name, i, i + 3)
    ELSE YearToken(name, i + 1)

\* out_dir / f"results_{year}.jsonl"
ResultsPath(child) == "results_" \o YearToken(child, 1) \o ".jsonl"

InitDir ==
    /\ source \in Sources
    /\ dedupe_on_write = FALSE
    /\ dedupe_existing = FALSE
    /\ total = 0
    /\ file0 = <<>>
    /\ file = <<>>
    /\ exists = FALSE
    /\ errsLeft = 0
    /\ runsLeft = 0
    /\ Volatile0
    /\ BatchIdle
    /\ passesLeft = 0
    /\ filtersLeft = 1
    /\ OneYear
    /\ PeersIdle
    /\ call = NoCall
    /\ NoParams
    /\ LateIdle
    /\ \E names \in {N \in SUBSET Range(DirNames) : Cardinality(N) <= MaxDirFiles} :
          in_dir \in [names -> DirContents]
    /\ out_dir = <<>>
    /\ children = <<>>

dirframe == <<source, dedupe_on_write, dedupe_existing, total, file0, file, exists,
              pc, hseed, cursor, seen, batch, idx, next_cursor, processed_entries,
              lastSleep, reqlog, fetched, delivered, errsLeft, runsLeft, history,
              tmp, dedup, results, snaps, passesLeft, fout, fraised, yearvars,
              peervars, call, in_dir, params, latevars>>

\* The call starts: the params file gives the configuration (and, for Europe
\* PMC, may switch the full-text requirement on), out_dir is created, the
\* children of in_dir are listed in sorted order.
FromParams ==
    /\ filtersLeft > 0
    /\ \E cfg \in WellFormedCfgs, arg \in BOOLEAN, flag \in BOOLEAN :
          /\ regex_cfg' = cfg
          /\ require_full_text' = (source = "eupmc" /\ (arg \/ flag))
    /\ children' = SelectSeq(DirNames, LAMBDA n : n \in DOMAIN in_dir)
    /\ filtersLeft' = filtersLeft - 1
    /\ UNCHANGED <<dirframe, out_dir, fresults>>

\* One iteration of the loop over the children: a .jsonl file is filtered
\* into results_<year>.jsonl, opened with mode "w"; any other child is passed
\* over.
FilterChild ==
    /\ children # <<>>
    /\ LET child == Head(children)
           out == ResultsPath(child)
           lines == FilterLines(source, in_dir[child], hseed,
                                normalize_regex_cfg(regex_cfg), require_full_text, {})
       IN  IF IsJsonl(child)
           THEN /\ out_dir' = [n \in DOMAIN out_dir \cup {out} |->
                                  IF n = out THEN lines ELSE out_dir[n]]
                /\ fresults' = Append(fresults,
                                      [path |-> child, out |-> out,
                                       total |-> FilterTotal(in_dir[child]),
                                       kept |-> Len(lines)])
           ELSE UNCHANGED <<out_dir, fresults>>
    /\ children' = Tail(children)
    /\ UNCHANGED <<dirframe, regex_cfg, require_full_text, filtersLeft>>

NextDir ==
    \/ FromParams
    \/ FilterChild

SpecDir == InitDir /\ [][NextDir]_vars

\* The call over the directory has returned.
DirDone == filtersLeft = 0 /\ children = <<>>

\* The .jsonl files of in_dir.
Inputs == {n \in DOMAIN in_dir : IsJsonl(n)}

\* ---------------------------------------------------------------- C27
\* C27: distinct input dump files of the directory produce distinct output
\* files: after the run there is one results file per input .jsonl file, and
\* each holds the filtered records of exactly its own input file.
C27_Original ==
    DirDone =>
       /\ Cardinality(DOMAIN out_dir) = Cardinality(Inputs)
       /\ \A r \in Range(fresults) :
             out_dir[r.out] = FilterLines(source, in_dir[r.path], hseed,
                                          normalize_regex_cfg(regex_cfg),
                                          require_full_text, {})

\* The run over misc.jsonl (holding R1) and notes.jsonl (holding R2) has
\* ended: both were filtered into results_unknown.jsonl, which holds the
\* record of notes.jsonl only.
C27_Witness ==
    /\ DirDone
    /\ source = "crossref"
    /\ DOMAIN in_dir = {"misc.jsonl", "notes.jsonl"}
    /\ in_dir["misc.jsonl"] = <<Dumps(R1)>>
    /\ in_dir["notes.jsonl"] = <<Dumps(R2), Garbage>>
    /\ Len(fresults) = 2
    /\ fresults[1].kept = 1
    /\ DOMAIN out_dir = {"results_unknown.jsonl"}
    /\ out_dir["results_unknown.jsonl"] = <<Dumps(R2)>>

\* ---------------------------------------------------------------- C28
\* The 4 characters of name from position i are digits.
FourDigitsAt(name, i) ==
    /\ i + 3 <= Len(name)
    /\ \A j \in i..(i + 3) : SubSeq(name, j, j) \in
          {"0", "1", "2", "3", "4", "5", "6", "7", "8", "9"}

\* The token the claim gives a name: its first 4 consecutive digits, or
\* "unknown".
TokenOf(name) ==
    IF \E i \in 1..Len(name) : FourDigitsAt(name, i)
    THEN LET first == CHOOSE i \in 1..Len(name) :
                         /\ FourDigitsAt(name, i)
                         /\ \A j \in 1..(i - 1) : ~FourDigitsAt(name, j)
         IN  SubSeq(name, first, first + 3)
    ELSE "unknown"

\* C28: the batch filter names the output of an input file
\* results_<token>.jsonl, the token being the first run of 4 consecutive
\* digits of the input file name, or "unknown" when there is none:
\* dumps_2019.jsonl gives results_2019.jsonl, misc.jsonl gives
\* results_unknown.jsonl.
C28_ResultsNamedByYearToken ==
    \A r \in Range(fresults) :
       /\ r.out = "results_" \o TokenOf(r.path) \o ".jsonl"
       /\ r.out \in DOMAIN out_dir
       /\ r.path = "dumps_2019.jsonl" => r.out = "results_2019.jsonl"
       /\ r.path = "misc.jsonl" => r.out = "results_unknown.jsonl"

\* A run over dumps_2019.jsonl, misc.jsonl and v12_2020.jsonl has ended with
\* the three results files of 2019, unknown and 2020.
C28_Witness ==
    /\ DirDone
    /\ DOMAIN in_dir = {"dumps_2019.jsonl", "misc.jsonl", "v12_2020.jsonl"}
    /\ DOMAIN out_dir = {"results_2019.jsonl", "results_unknown.jsonl",
                         "results_2020.jsonl"}

\* ---------------------------------------------------------------- C30
\* A page was written and pagination goes on to another request.
PageEndsUnexhausted == pc = "write" /\ pc' = "request"

\* The entries processed in the year since the counter was last at 0 reach
\* the restart threshold with this page.
ThresholdReached ==
    (IF source = "crossref" THEN processed_entries + Len(batch) ELSE Len(delivered))
       >= RestartThreshold

\* C30 as stated, for Crossref and Europe PMC: when the entries processed
\* within the year reach the restart threshold without pagination being
\* exhausted, the counter is reset to 0 and an extended pause is taken; the
\* seen-set and the partition file are unchanged and pagination continues
\* from the next cursor.
C30_Original ==
    [][(PageEndsUnexhausted /\ ThresholdReached) =>
          /\ processed_entries' = 0
          /\ lastSleep' >= RestartPause
          /\ cursor' = next_cursor
          /\ seen' = seen
          /\ file' = file]_vars

\* C30: in the Crossref orchestrator only, when the counter reaches the
\* restart threshold without pagination being exhausted, it is reset to 0 and
\* the extended pause is taken before the politeness delay; the seen-set and
\* the partition file are unchanged and pagination continues from the next
\* cursor.  The Europe PMC orchestrator has no restart threshold: it keeps no
\* counter and always takes the politeness delay.
C30_CrossrefRestartThreshold ==
    [][PageEndsUnexhausted =>
          /\ (source = "crossref" /\ ThresholdReached) =>
                /\ processed_entries' = 0
                /\ lastSleep' = RestartPause + PolitenessDelay
          /\ source = "eupmc" =>
                /\ processed_entries' = processed_entries
                /\ lastSleep' = PolitenessDelay
          /\ cursor' = next_cursor
          /\ cursor' # Star
          /\ seen' = seen
          /\ file' = file]_vars

\* A Crossref year in which a full page was written, the counter was reset
\* and the extended pause taken, the next request pending at the next cursor.
C30_Witness ==
    /\ source = "crossref"
    /\ pc = "request"
    /\ delivered # <<>>
    /\ processed_entries = 0
    /\ lastSleep = RestartPause + PolitenessDelay
    /\ cursor = next_cursor
    /\ cursor # Star

\* ================================================================ ChemRxiv
\* Nothing of the Crossref / Europe PMC harvest runs.
HarvestIdle ==
    /\ dedupe_on_write = FALSE
    /\ dedupe_existing = FALSE
    /\ total = 0
    /\ file0 = <<>>
    /\ file = <<>>
    /\ exists = FALSE
    /\ errsLeft = 0
    /\ runsLeft = 0
    /\ Volatile0
    /\ BatchIdle
    /\ passesLeft = 0
    /\ filtersLeft = 0
    /\ OneYear

harvestvars == <<source, dedupe_on_write, dedupe_existing, total, file0, file, exists,
                 pc, hseed, cursor, seen, batch, idx, next_cursor, processed_entries,
                 lastSleep, reqlog, fetched, delivered, errsLeft, runsLeft, history,
                 batchvars, yearvars>>

\* ---------------------------------------------------------------- params
\* A path: absolute or relative, and its parts.
Path(abs, parts) == [abs |-> abs, parts |-> parts]

\* The working directory of the process.
Cwd == Path(TRUE, <<"home", "u">>)

\* Path.parent
Parent(p) == Path(p.abs, SubSeq(p.parts, 1, Len(p.parts) - 1))

\* The relative part is taken as it is, whatever the base.
Join_IgnoresBase(base, p) == p

\* base / p: an absolute p replaces the base.
Join(base, p) == IF p.abs THEN p ELSE Path(base.abs, base.parts \o p.parts)

\* The parts without "..", each ".." taking the part before it with it.
RECURSIVE Collapse(_, _)
Collapse(done, parts) ==
    IF parts = <<>> THEN done
    ELSE IF Head(parts) = ".."
    THEN Collapse(SubSeq(done, 1, Len(done) - 1), Tail(parts))
    ELSE Collapse(Append(done, Head(parts)), Tail(parts))

\* Path.resolve(): absolute (from the working directory when relative) and
\* without "..".
Resolve(p) == Path(TRUE, Collapse(<<>>, IF p.abs THEN p.parts ELSE Cwd.parts \o p.parts))

\* A key that the JSON object of the params file does not have.
Missing == [missing |-> TRUE]

\* raw.get(key, default)
GetOr(raw, key, default) == IF raw[key] = Missing THEN default ELSE raw[key]

\* float(x) of a JSON number: an int n becomes n.0 (floats are in tenths).
Float(x) == IF "int" \in DOMAIN x THEN [float |-> 10 * x.int] ELSE x

\* The dataclass defaults of ChemRxivParams.
ClassDefaults ==
    [start_date |-> Str("2018-01-01"), end_date |-> None,
     dump_dir |-> Path(FALSE, <<"chemrxiv_dumps">>),
     result_dir |-> Path(FALSE, <<"chemrxiv_results">>),
     sleep_seconds |-> [float |-> 50], query |-> None]

\* ChemRxivParams.default_query()
default_query ==
    <<<<"lithium anode", "lithium metal anode", "lithium metal">>,
      <<"electrolyte", "solvent", "liquid electrolyte">>>>

\* ChemRxivParams.load(params_file) for the JSON object raw.
Load(params_file, raw) ==
    LET base == Parent(params_file)
    IN  [start_date |-> GetOr(raw, "start_date", ClassDefaults.start_date),
         end_date |-> GetOr(raw, "end_date", None),
         dump_dir |-> Resolve(Join(base, GetOr(raw, "dump_dir", ClassDefaults.dump_dir))),
         result_dir |->
            Resolve(Join(base, GetOr(raw, "result_dir", ClassDefaults.result_dir))),
         sleep_seconds |-> Float(GetOr(raw, "sleep_seconds", ClassDefaults.sleep_seconds)),
         query |-> GetOr(raw, "query", None)]

\* The params files: an absolute path, a path under the working directory,
\* a bare file name.
ParamsFiles ==
    {Path(TRUE, <<"proj", "cfg", "p.json">>), Path(FALSE, <<"cfg", "p.json">>),
     Path(FALSE, <<"p.json">>)}

\* The JSON objects a params file can hold: any key may be absent.
RawParams ==
    [start_date : {Missing, Str("2020-01-01")},
     end_date : {Missing, Str("2020-03-01")},
     dump_dir : {Missing, Path(FALSE, <<"chemrxiv_dumps">>),
                 Path(FALSE, <<"..", "dumps">>), Path(TRUE, <<"data", "dumps">>)},
     result_dir : {Missing, Path(FALSE, <<"out", "results">>)},
     sleep_seconds : {Missing, [int |-> 1], [float |-> 25]},
     query : {Missing, List(<<List(<<Str("a"), Str("b")>>), List(<<Str("c")>>)>>)}]

InitParams ==
    /\ source = "crossref"
    /\ HarvestIdle
    /\ PeersIdle
    /\ call = NoCall
    /\ NoDir
    /\ LateIdle
    /\ \E f \in ParamsFiles, raw \in RawParams :
          params = <<[params_file |-> f, raw |-> raw]>>

\* ChemRxivParams.load returns.
LoadParams ==
    /\ Len(params) = 1
    /\ params' = Append(params, Load(params[1].params_file, params[1].raw))
    /\ UNCHANGED <<harvestvars, peervars, call, dirvars, latevars>>

\* default_query() is called: it has no state to change.
DefaultQuery ==
    /\ Len(params) = 2
    /\ params' = Append(params, [default_query |-> default_query])
    /\ UNCHANGED <<harvestvars, peervars, call, dirvars, latevars>>

NextParams ==
    \/ LoadParams
    \/ DefaultQuery

SpecParams == InitParams /\ [][NextParams]_vars

\* ---------------------------------------------------------------- C31
\* The value of a JSON number, in tenths.
Tenths(x) == IF "int" \in DOMAIN x THEN 10 * x.int ELSE x.float

\* The directory d of the params file f as an absolute path without "..":
\* d taken from the directory of f, that directory from the working
\* directory when f is relative.
FromParamsDir(f, d) ==
    LET dir == SubSeq(f.parts, 1, Len(f.parts) - 1)
        absdir == IF f.abs THEN dir ELSE <<"home", "u">> \o dir
        RECURSIVE NoDots(_)
        NoDots(parts) ==
            IF \A i \in 1..Len(parts) : parts[i] # ".." THEN parts
            ELSE LET i == CHOOSE i \in 1..Len(parts) :
                             parts[i] = ".." /\ \A j \in 1..(i - 1) : parts[j] # ".."
                 IN  NoDots(SubSeq(parts, 1, i - 2) \o SubSeq(parts, i + 1, Len(parts)))
    IN  [abs |-> TRUE, parts |-> NoDots(IF d.abs THEN d.parts ELSE absdir \o d.parts)]

\* C31: ChemRxivParams.load returns start_date, end_date, sleep_seconds and
\* query of the params file unchanged, dump_dir and result_dir as absolute
\* paths taken from the directory of the params file, and the class defaults
\* for absent keys; default_query returns at least two keyword groups.
C31_LoadKeepsParams ==
    /\ Len(params) >= 2 =>
          LET f == params[1].params_file
              raw == params[1].raw
              p == params[2]
              Given(key, default) == IF raw[key] = Missing THEN default ELSE raw[key]
          IN  /\ p.start_date = Given("start_date", Str("2018-01-01"))
              /\ p.end_date = Given("end_date", None)
              /\ p.query = Given("query", None)
              /\ Tenths(p.sleep_seconds) = Tenths(Given("sleep_seconds", [float |-> 50]))
              /\ p.dump_dir.abs /\ p.result_dir.abs
              /\ p.dump_dir =
                    FromParamsDir(f, Given("dump_dir", Path(FALSE, <<"chemrxiv_dumps">>)))
              /\ p.result_dir =
                    FromParamsDir(f, Given("result_dir",
                                           Path(FALSE, <<"chemrxiv_results">>)))
    /\ Len(params) >= 3 => Len(params[3].default_query) >= 2

\* The params file cfg/p.json, given relative to the working directory, was
\* loaded with dump_dir "../dumps", an integer sleep and no end_date.
C31_Witness ==
    /\ Len(params) >= 2
    /\ params[1].params_file = Path(FALSE, <<"cfg", "p.json">>)
    /\ params[1].raw.dump_dir = Path(FALSE, <<"..", "dumps">>)
    /\ params[1].raw.sleep_seconds = [int |-> 1]
    /\ params[1].raw.end_date = Missing
    /\ params[2].dump_dir = Path(TRUE, <<"home", "u", "dumps">>)
    /\ params[2].end_date = None

\* ---------------------------------------------------------------- C32
\* The successful requests of the run before its i-th request.
PagesBefore(i) == {j \in 1..(i - 1) : reqlog[j].status = "200"}

\* C32: the first request of every pagination run, also after a restart of
\* the process, carries the start sentinel; every later request carries the
\* next-cursor of the most recent successful response of the run; an attempt
\* that fails or is rate limited does not change the cursor, and nothing of
\* the cursor survives the process.
C32_CursorProtocol ==
    /\ [](\A i \in 1..Len(reqlog) :
            reqlog[i].cursor =
               IF PagesBefore(i) = {} THEN "*"
               ELSE reqlog[CHOOSE j \in PagesBefore(i) :
                              \A k \in PagesBefore(i) : k <= j].nc)
    /\ []((pc = "request" /\ reqlog = <<>>) => cursor = "*")
    /\ [][(Len(reqlog') = Len(reqlog) + 1 /\ reqlog'[Len(reqlog')].status # "200") =>
             cursor' = cursor]_vars

\* A process that was killed after it had taken a next cursor was started
\* again, its first attempt failed and the second request was sent: both
\* carry the start sentinel.
C32_Witness ==
    /\ runsLeft = 0
    /\ file # file0
    /\ Len(reqlog) = 2
    /\ reqlog[1].status # "200"
    /\ reqlog[2].status = "200"
    /\ reqlog[2].cursor = "*"
    /\ reqlog[2].nc # NoCursor

\* ---------------------------------------------------------------- C33
\* A step in which a process enters the year over an existing partition with
\* dedupe_existing set.
CompactingStart ==
    /\ runsLeft' = runsLeft - 1
    /\ exists
    /\ dedupe_existing

\* The partition has duplicates the compaction would remove.
HasDuplicates(f) == deduplicate_jsonl_file(source, f, hseed) # f

\* C33: with dedupe_existing and an existing partition file, the year starts
\* in one of two ways, both before any request is made: the partition is
\* compacted and the seen-set is the key set of the compacted file, or the
\* compaction raised, the partition is as it was and the seen-set is the key
\* set of the uncompacted file; the harvest goes on in both.  A request never
\* changes the partition by itself.
C33_CompactionBeforeKeys ==
    /\ [][CompactingStart =>
            /\ pc' = "request"
            /\ reqlog' = <<>>
            /\ \/ /\ file' = deduplicate_jsonl_file(source, file, hseed')
                  /\ seen' = KeysOfLines(source, file', hseed')
               \/ /\ file' = file
                  /\ seen' = KeysOfLines(source, file, hseed')]_vars
    /\ [][Len(reqlog') > Len(reqlog) => file' = file]_vars

\* The compaction of a partition with duplicates raised, the first page was
\* then requested and answered, the duplicates are still in the file.
C33_Witness ==
    /\ dedupe_existing
    /\ runsLeft = MaxRuns - 1
    /\ HasDuplicates(file0)
    /\ Len(reqlog) = 1
    /\ reqlog[1].status = "200"
    /\ Len(file) >= Len(file0)
    /\ SubSeq(file, 1, Len(file0)) = file0
    /\ seen # {}


\* ================================================================ keyword search
\* search_crossref_from_params / search_eupmc_from_params and the
\* search_crossref_cursor / search_eupmc_keywords they call.

\* Pages with a next cursor the API serves in one search.
MaxKwPages == 1

\* Records the API returns to a keyword query: two with the same identity key
\* (DOIs that differ in case only) and one without DOI and id.
KwRecords == {R1, R2, R4}

\* What the "query" key of the params JSON can hold (None: the key is absent
\* or null).
QueryValues ==
    {Str("qa"), List(<<Str("qa")>>), List(<<Str("qa"), Str("qb")>>),
     List(<<Str("qa"), Str("qa")>>),
     List(<<>>), List(<<Str("qa"), Num>>), None, Num}

\* Any list passes, the empty one and one with a number included.
ValidQuery_AnyList(q) == IsStr(q) \/ IsList(q)

\* isinstance(q, str), or isinstance(q, list) and all(isinstance(x, str) for
\* x in q) and q
ValidQuery(q) ==
    \/ IsStr(q)
    \/ /\ IsList(q)
       /\ \A i \in 1..Len(q.list) : IsStr(q.list[i])
       /\ q.list # <<>>

\* queries = [q] for a str, q itself for a list.
QueriesOf(q) ==
    IF IsStr(q) THEN <<q.str>> ELSE [i \in 1..Len(q.list) |-> q.list[i].str]

\* The file at out_path: absent, or its lines.
NoFile == [exists |-> FALSE, lines |-> <<>>]

FileOf(lines) == [exists |-> TRUE, lines |-> lines]

\* entry["source_query"] = q
Tagged(entry, q) ==
    [DOI |-> entry.DOI, id |-> entry.id, title |-> entry.title, source_query |-> q]

\* Each query starts with an empty seen-set.
SeenForNextQuery_Fresh(seenKeys) == {}

\* seen_dois / seen is created once, before "for q in queries".
SeenForNextQuery(seenKeys) == seenKeys

\* The entry is skipped: "if dedupe_on_write and doi: if doi in seen_dois"
\* (Crossref), "if dedupe_on_write and key in seen" (Europe PMC).
AlreadyWritten(src, dedupe, k, seenKeys) ==
    IF src = "crossref" THEN dedupe /\ k # "" /\ k \in seenKeys
    ELSE dedupe /\ k \in seenKeys

\* The seen-set after an entry that is written: Crossref adds a non-empty DOI
\* when de-duplicating, Europe PMC adds every key.
SeenAfterWrite(src, dedupe, k, seenKeys) ==
    IF src = "crossref"
    THEN (IF dedupe /\ k # "" THEN seenKeys \cup {k} ELSE seenKeys)
    ELSE seenKeys \cup {k}

\* The call as it is made: through *_from_params with the query of the params
\* file (de-duplication on), or directly with a list of queries.
KwCall(via, q, dedupe, seed, out0) ==
    [pc |-> "call", via |-> via, q |-> q, dedupe_on_write |-> dedupe, hseed |-> seed,
     out0 |-> out0, out |-> out0, error |-> "", queries |-> <<>>, qi |-> 0,
     seen |-> {}, cursor |-> Star, batch |-> <<>>, idx |-> 1, more |-> FALSE,
     requests |-> 0, pagesLeft |-> MaxKwPages, errsLeft |-> 1, log |-> <<>>]

InitKeyword ==
    /\ source \in Sources
    /\ HarvestIdle
    /\ PeersIdle
    /\ call = NoCall
    /\ NoDir
    /\ NoParams
    /\ chem = [pc |-> "idle"]
    /\ \E seed \in (IF source = "eupmc" THEN HashSeeds ELSE {"s0"}),
          out0 \in {NoFile, FileOf(<<Dumps(R1)>>)} :
          \/ \E q \in QueryValues : kw = KwCall("from_params", q, TRUE, seed, out0)
          \/ \E q \in {List(<<Str("qa"), Str("qb")>>), List(<<>>)}, d \in BOOLEAN :
                kw = KwCall("direct", q, d, seed, out0)

kwframe == <<harvestvars, peervars, call, dirvars, params, chem>>

\* search_*_from_params reads the query of the params file: a ValueError
\* before anything else is done, or the queries to search with.
KwFromParams ==
    /\ kw.pc = "call"
    /\ kw.via = "from_params"
    /\ kw' = IF ValidQuery(kw.q)
             THEN [kw EXCEPT !.pc = "open", !.queries = QueriesOf(kw.q)]
             ELSE [kw EXCEPT !.pc = "raised", !.error = "ValueError"]
    /\ UNCHANGED kwframe

\* search_crossref_cursor / search_eupmc_keywords is called with a list.
KwDirect ==
    /\ kw.pc = "call"
    /\ kw.via = "direct"
    /\ kw' = [kw EXCEPT !.pc = "open", !.queries = QueriesOf(kw.q)]
    /\ UNCHANGED kwframe

\* out_path.parent.mkdir, the seen-set, open(out_path, "w") and the first
\* iteration of "for q in queries".
KwOpen ==
    /\ kw.pc = "open"
    /\ kw' = [kw EXCEPT !.out = FileOf(<<>>),
                        !.seen = {},
                        !.qi = IF kw.queries = <<>> THEN 0 ELSE 1,
                        !.cursor = Star,
                        !.pc = IF kw.queries = <<>> THEN "done" ELSE "request"]
    /\ UNCHANGED kwframe

\* A 429 or a RequestException: sleep, the same request again.
KwRetry ==
    /\ kw.pc = "request"
    /\ kw.errsLeft > 0
    /\ kw' = [kw EXCEPT !.requests = kw.requests + 1, !.errsLeft = kw.errsLeft - 1]
    /\ UNCHANGED kwframe

\* A page arrives: up to rows items, with or without a next cursor.
KwPage ==
    /\ kw.pc = "request"
    /\ \E b \in SeqsUpTo(KwRecords, PageSize), nc \in BOOLEAN :
          /\ nc => Len(b) = PageSize
          /\ kw.pagesLeft = 0 => ~nc
          /\ kw' = [kw EXCEPT !.requests = kw.requests + 1,
                              !.batch = b,
                              !.idx = 1,
                              !.more = nc,
                              !.pagesLeft = IF kw.pagesLeft > 0 THEN kw.pagesLeft - 1
                                            ELSE 0,
                              !.pc = "write"]
    /\ UNCHANGED kwframe

\* One item of the page: tagged with the query, skipped if its key was seen,
\* written otherwise.
KwEntry ==
    /\ kw.pc = "write"
    /\ kw.idx <= Len(kw.batch)
    /\ LET entry == Tagged(kw.batch[kw.idx], kw.queries[kw.qi])
           k == IdentityKey(source, entry, kw.hseed)
           skip == AlreadyWritten(source, kw.dedupe_on_write, k, kw.seen)
       IN  kw' = [kw EXCEPT
                    !.idx = kw.idx + 1,
                    !.log = Append(kw.log, [qi |-> kw.qi, entry |-> kw.batch[kw.idx]]),
                    !.seen = IF skip THEN kw.seen
                             ELSE SeenAfterWrite(source, kw.dedupe_on_write, k, kw.seen),
                    !.out = IF skip THEN kw.out
                            ELSE FileOf(Append(kw.out.lines, Dumps(entry)))]
    /\ UNCHANGED kwframe

\* The page is done: the next page of the query, the next query, or the end.
KwEndPage ==
    /\ kw.pc = "write"
    /\ kw.idx > Len(kw.batch)
    /\ kw' = IF kw.more
             THEN [kw EXCEPT !.cursor = Token(kw.requests), !.pc = "request"]
             ELSE IF kw.qi < Len(kw.queries)
             THEN [kw EXCEPT !.qi = kw.qi + 1,
                             !.cursor = Star,
                             !.seen = SeenForNextQuery(kw.seen),
                             !.pc = "request"]
             ELSE [kw EXCEPT !.pc = "done"]
    /\ UNCHANGED kwframe

NextKeyword ==
    \/ KwFromParams
    \/ KwDirect
    \/ KwOpen
    \/ KwRetry
    \/ KwPage
    \/ KwEntry
    \/ KwEndPage

SpecKeyword == InitKeyword /\ [][NextKeyword]_vars


\* ---------------------------------------------------------------- C34
\* The identity key of an entry in the process of the search.
KwKey(entry) == IdentityKey(source, entry, kw.hseed)

\* The non-empty keys the queries have returned so far.
KwKeysReturned == {KwKey(kw.log[i].entry) : i \in 1..Len(kw.log)} \ {""}

\* The lines of the output that carry key k.
LinesWith(k) == {i \in 1..Len(kw.out.lines) : KwKey(Loads(kw.out.lines[i])) = k}

\* The first query, in list order, that returned a record with key k.
FirstQueryOf(k) ==
    LET at == {kw.log[i].qi : i \in {j \in 1..Len(kw.log) : KwKey(kw.log[j].entry) = k}}
    IN  kw.queries[CHOOSE n \in at : \A o \in at : n <= o]

\* C34: in a keyword search with dedupe_on_write, every identity key that the
\* queries of the call have returned, by however many of them, is on exactly
\* one line of the output, and that line carries as source_query the first
\* query in list order that returned the key; a line once written stays as it
\* is.
C34_OneSeenSetAcrossQueries ==
    /\ []((kw.pc \in {"request", "write", "done"} /\ kw.dedupe_on_write) =>
            \A k \in KwKeysReturned :
               /\ Cardinality(LinesWith(k)) = 1
               /\ \A i \in LinesWith(k) :
                     Loads(kw.out.lines[i]).source_query = FirstQueryOf(k))
    /\ [][kw.pc \in {"request", "write"} => IsPrefix(kw.out.lines, kw'.out.lines)]_vars

\* Two queries returned the same key (the second in another spelling of the
\* DOI); the search ended with the one line the first query wrote.
C34_Witness ==
    /\ kw.pc = "done"
    /\ kw.dedupe_on_write
    /\ kw.queries = <<"qa", "qb">>
    /\ \E i, j \in 1..Len(kw.log) :
          /\ kw.log[i].qi = 1 /\ kw.log[i].entry = R1
          /\ kw.log[j].qi = 2 /\ kw.log[j].entry = R2
    /\ kw.log[1].entry = R1
    /\ \A i \in 1..Len(kw.log) : kw.log[i].entry \in {R1, R2}
    /\ kw.out.lines = <<Dumps(Tagged(R1, "qa"))>>

\* ---------------------------------------------------------------- C35
\* The values of "query" that are neither a string nor a non-empty list of
\* strings.
InvalidQueries == {List(<<>>), List(<<Str("qa"), Num>>), None, Num}

\* C35: search_*_from_params with a query that is neither a string nor a
\* non-empty list of strings ends with ValueError, having made no request and
\* with the output file as it was, absent or with its lines; with any other
\* query it does not raise.
C35_InvalidQueryRaisesBeforeAnyEffect ==
    /\ (kw.via = "from_params" /\ kw.q \in InvalidQueries /\ kw.pc # "call") =>
          /\ kw.pc = "raised"
          /\ kw.error = "ValueError"
          /\ kw.requests = 0
          /\ kw.out = kw.out0
    /\ kw.pc = "raised" => kw.q \in InvalidQueries

\* An empty list of queries was refused and the existing output file still
\* has its line.
C35_Witness ==
    /\ kw.via = "from_params"
    /\ kw.pc = "raised"
    /\ kw.q = List(<<>>)
    /\ kw.out = FileOf(<<Dumps(R1)>>)


\* ---------------------------------------------------------------- C36
\* The call got an empty range of years.
EmptyRange == start_year > end_year

\* No partition file was created or changed.
NoPartitionTouched ==
    /\ output_file = ""
    /\ file = <<>>
    /\ present = {p \in Partitions : disk[p] # <<>>}

\* C36 (as stated): cursor_yearly_dump with start_year > end_year makes no
\* request, creates no partition file and returns normally, for Crossref and
\* for Europe PMC.
C36_Original ==
    EmptyRange =>
       /\ reqlog = <<>>
       /\ started = <<>>
       /\ NoPartitionTouched
       /\ pc \in {"idle", "returned"}

\* The Crossref call over an empty range ended with an exception, without a
\* request and without a file.
C36_Witness ==
    /\ EmptyRange
    /\ source = "crossref"
    /\ pc = "raised"
    /\ reqlog = <<>>
    /\ NoPartitionTouched

\* The Europe PMC call over an empty range returned.
C36_EuropePmcReturns ==
    (EmptyRange /\ source = "eupmc") =>
       /\ reqlog = <<>>
       /\ NoPartitionTouched
       /\ pc \in {"idle", "returned"}


\* ================================================================ scope
\* One record goes through the test of _regex_filter_file: the configuration
\* is normalised, then the entry is matched under the scope it yields.

\* What the "scope" key of a regex configuration can hold (None: the key is
\* absent or null).
ScopeValues ==
    {None, Str(""), Str("title"), Str("abstract"), Str("field"), Str("combined"),
     Str("Title"), Str("FIELD"), Str("titel"), Str("all"),
     Num, Zero, PyFalse, List(<<>>), List(<<Str("title")>>)}

ScopeTexts == {Str(""), Str("foo"), Str("bar"), Str("Foo Bar")}

ScopeGroups == {Dict({Pats(<<"foo">>)}), Dict({Pats(<<"foo">>), Pats(<<"bar">>)})}

InitScope ==
    /\ source \in Sources
    /\ HarvestIdle
    /\ PeersIdle
    /\ NoDir
    /\ NoParams
    /\ LateIdle
    /\ \E title \in ScopeTexts, abstract \in ScopeTexts :
          \E cfg \in {NoRegexCfg} \cup
                     {[isdict |-> TRUE, groups |-> g, scope |-> sc] :
                         g \in ScopeGroups, sc \in ScopeValues} :
             call = [entry |-> Entry(source, title, abstract), cfg |-> cfg,
                     step |-> "normalize", groups |-> {}, scope |-> "", returned |-> {}]

\* groups, scope = _normalize_regex_cfg(regex_cfg)
NormalizeCfg ==
    /\ call.step = "normalize"
    /\ call' = [call EXCEPT !.groups = normalize_regex_cfg(call.cfg).groups,
                            !.scope = normalize_regex_cfg(call.cfg).scope,
                            !.step = "match"]
    /\ UNCHANGED matchframe

\* _matches_entry_groups(obj, groups, scope=scope) returns.
ConfiguredMatch ==
    /\ call.step = "match"
    /\ call' = [call EXCEPT !.returned =
                  {[fn |-> "entry",
                    value |-> matches_entry_groups(source, call.entry, call.groups,
                                                   call.scope)]},
                            !.step = "done"]
    /\ UNCHANGED matchframe

NextScope ==
    \/ NormalizeCfg
    \/ ConfiguredMatch

SpecScope == InitScope /\ [][NextScope]_vars

\* ---------------------------------------------------------------- C37
\* The entry of the call evaluated in one of the four ways.
EvaluatedAs(way) ==
    IF way = "title" THEN AloneSatisfies(CallTitle)
    ELSE IF way = "abstract" THEN AloneSatisfies(CallAbstract)
    ELSE IF way = "field" THEN AloneSatisfies(CallTitle) \/ AloneSatisfies(CallAbstract)
    ELSE AloneSatisfies(IF CallTitle = "" THEN CallAbstract
                        ELSE IF CallAbstract = "" THEN CallTitle
                        ELSE CallTitle \o " " \o CallAbstract)

\* The way the configured scope sc is evaluated when the scopes in missing
\* count as not given.
WayOf(sc, missing) ==
    IF sc \in missing THEN "field"
    ELSE IF sc \in {Str("title"), Str("abstract"), Str("field")} THEN sc.str
    ELSE "combined"

\* C37 (as stated): a missing or empty scope is evaluated as field, every
\* other value than title, abstract and field as combined, and no value
\* raises.
C37_Original ==
    call.step = "done" =>
       Returned("entry") =
          {EvaluatedAs(WayOf(call.cfg.scope, {None, Str(""), List(<<>>)}))}

\* C37: a scope that is missing or false in Python (null, "", an empty list,
\* the number 0, false) is evaluated as field; every other value than title,
\* abstract and field (a mis-cased or misspelled name, a non-zero number, a
\* non-empty list) is evaluated as combined; the test returns for every
\* value.
C37_ScopeIsTotal ==
    /\ call.step = "done" =>
          Returned("entry") =
             {EvaluatedAs(WayOf(call.cfg.scope, {None, Str(""), List(<<>>), Zero, PyFalse}))}
    /\ call.step = "match" => call.scope \in STRING

\* A mis-cased "Title" was evaluated as combined: title "foo" and abstract
\* "bar" satisfy the two groups together, the title alone does not.
C37_Witness ==
    /\ call.step = "done"
    /\ call.cfg.scope = Str("Title")
    /\ call.groups = FooAndBar
    /\ CallTitle = "foo"
    /\ CallAbstract = "bar"
    /\ Returned("entry") = {TRUE}


\* ================================================================ ChemRxiv scrape
\* scrape_chemrxiv_monthly, run after run over the same save_dir.  A date is
\* a day number; every month of the model has MonthLen days, day 0 being the
\* first day of a month.

MonthLen == 2

\* The last day an end_date can name.
MaxDay == 5

MaxChemRuns == 2

\* (current.replace(day=1) + timedelta(days=32)).replace(day=1)
NextMonth(current) == ((current \div MonthLen) + 1) * MonthLen

\* _month_iter(start, end): the (start, end) ranges, end exclusive.
RECURSIVE month_iter(_, _)
month_iter(current, end) ==
    IF current < end
    THEN <<<<current, Min(NextMonth(current), end)>>>> \o month_iter(NextMonth(current), end)
    ELSE <<>>

\* The dump file of a range, by its name chemrxiv_{start}_{end}.jsonl: missing,
\* empty, or with data.
FileStates == {"missing", "empty", "data"}

DayRanges == {r \in (0..MaxDay) \X (0..MaxDay) : r[1] < r[2]}

\* The month is skipped whenever its file exists.
SkipMonth_IfExists(state) == state # "missing"

\* out_path.exists() and out_path.stat().st_size > 0
SkipMonth(state) == state = "data"

\* A run of scrape_chemrxiv_monthly(start_date, end_date) at the top of its
\* loop over the months.
ChemRun(n, start, end, retry, files) ==
    [pc |-> "loop", run |-> n, start |-> start, end |-> end,
     retry_on_decode_error |-> retry, ranges |-> month_iter(start, end), i |-> 1,
     files |-> files, files0 |-> files, calls |-> <<>>]

InitMonths ==
    /\ source = "crossref"
    /\ HarvestIdle
    /\ PeersIdle
    /\ call = NoCall
    /\ NoDir
    /\ NoParams
    /\ kw = [pc |-> "idle"]
    /\ \E start \in 0..1, end \in 3..(MaxDay - 1), retry \in BOOLEAN :
          \E have \in SUBSET Range(month_iter(start, end)) :
             chem = ChemRun(1, start, end, retry,
                            [r \in DayRanges |-> IF r \in have THEN "data"
                                                 ELSE "missing"])

chemframe == <<harvestvars, peervars, call, dirvars, params, kw>>

\* The range the loop is at.
ThisMonth == chem.ranges[chem.i]

AtMonth == chem.pc = "loop" /\ chem.i <= Len(chem.ranges)

\* The call of chemrxiv_dump for the month, as the log keeps it.
DumpCall == [run |-> chem.run, range |-> ThisMonth, before |-> chem.files[ThisMonth]]

\* The file of the month exists and is not empty: continue.
MonthSkip ==
    /\ AtMonth
    /\ SkipMonth(chem.files[ThisMonth])
    /\ chem' = [chem EXCEPT !.i = chem.i + 1]
    /\ UNCHANGED chemframe

\* chemrxiv_dump returns: the file of the month is written, with the papers
\* of the month or without any.
MonthDump ==
    /\ AtMonth
    /\ ~SkipMonth(chem.files[ThisMonth])
    /\ \E written \in {"empty", "data"} :
          chem' = [chem EXCEPT !.calls = Append(chem.calls, DumpCall),
                               !.files[ThisMonth] = written,
                               !.i = chem.i + 1]
    /\ UNCHANGED chemframe

\* chemrxiv_dump raises and retry_on_decode_error is off: the month is left as
\* the failed call left it (untouched, or partly written).
MonthDumpFails ==
    /\ AtMonth
    /\ ~SkipMonth(chem.files[ThisMonth])
    /\ ~chem.retry_on_decode_error
    /\ \E left \in {chem.files[ThisMonth], "data"} :
          chem' = [chem EXCEPT !.calls = Append(chem.calls, DumpCall),
                               !.files[ThisMonth] = left,
                               !.i = chem.i + 1]
    /\ UNCHANGED chemframe

\* chemrxiv_dump raises and the month is scraped in chunks:
\* _scrape_range_chunked returns with the merged file written, empty or not,
\* or its merge raises and ends the run with the file as far as it got.
MonthDumpRetried ==
    /\ AtMonth
    /\ ~SkipMonth(chem.files[ThisMonth])
    /\ chem.retry_on_decode_error
    /\ \/ \E merged \in {"empty", "data"} :
             chem' = [chem EXCEPT !.calls = Append(chem.calls, DumpCall),
                                  !.files[ThisMonth] = merged,
                                  !.i = chem.i + 1]
       \/ \E left \in {chem.files[ThisMonth], "empty"} :
             chem' = [chem EXCEPT !.calls = Append(chem.calls, DumpCall),
                                  !.files[ThisMonth] = left,
                                  !.pc = "raised"]
    /\ UNCHANGED chemframe

\* The months are exhausted: the call returns.
MonthsDone ==
    /\ chem.pc = "loop"
    /\ chem.i > Len(chem.ranges)
    /\ chem' = [chem EXCEPT !.pc = "done"]
    /\ UNCHANGED chemframe

\* The scrape is run again over the same save_dir, with the same dates or,
\* end_date being today by default, one day later.
ChemRerun ==
    /\ chem.pc \in {"done", "raised"}
    /\ chem.run < MaxChemRuns
    /\ \E end \in {chem.end, chem.end + 1} :
          chem' = ChemRun(chem.run + 1, chem.start, end, chem.retry_on_decode_error,
                          chem.files)
    /\ UNCHANGED chemframe

NextMonths ==
    \/ MonthSkip
    \/ MonthDump
    \/ MonthDumpFails
    \/ MonthDumpRetried
    \/ MonthsDone
    \/ ChemRerun

SpecMonths == InitMonths /\ [][NextMonths]_vars

\* ---------------------------------------------------------------- C38
\* The months the loop of the current run has gone past.
MonthsPassed == {chem.ranges[k] : k \in 1..Min(chem.i - 1, Len(chem.ranges))}

\* The months of the current run that a dump call was made for.
MonthsCalled == {chem.calls[k].range : k \in 1..Len(chem.calls)}

\* C38: a dump call is made only for a month whose file is missing or empty;
\* a run that finds a non-empty file for each of its months makes no dump
\* call and changes no file; and every month that a run goes past with a
\* missing or empty file gets a dump call in that run.
C38_NonEmptyMonthsSkipped ==
    chem.pc # "idle" =>
       /\ \A k \in 1..Len(chem.calls) : chem.calls[k].before \in {"missing", "empty"}
       /\ (\A k \in 1..Len(chem.ranges) : chem.files0[chem.ranges[k]] = "data") =>
             /\ chem.calls = <<>>
             /\ chem.files = chem.files0
       /\ \A r \in MonthsPassed :
             /\ chem.files0[r] = "data" => r \notin MonthsCalled /\ chem.files[r] = "data"
             /\ chem.files0[r] # "data" => r \in MonthsCalled

\* The second run went through its months: the first was skipped, the second,
\* which the first run had left empty, was dumped again.
C38_Witness ==
    /\ chem.run = 2
    /\ chem.pc = "done"
    /\ Len(chem.ranges) = 2
    /\ chem.files0[chem.ranges[1]] = "data"
    /\ chem.files0[chem.ranges[2]] = "empty"
    /\ MonthsCalled = {chem.ranges[2]}


\* ================================================================ chunked scrape
\* One call of _scrape_range_chunked(start_s, end_s, save_dir, out_path,
\* chunk_days) with its recursive calls, as a stack of frames.  Dates are day
\* numbers, the range starts at day 0.

\* The longest range, in days.
MaxChunkDays == 3

\* The chunk sizes a call is made with (7 is fallback_chunk_days).
ChunkSizes == {1, 2, 3, 4, 7}

\* Frames the model leaves room for.
MaxDepth == 4

\* A failed chunk is scraped again with the size it failed with.
SmallerSizes_SameSize(chunk_days) == <<chunk_days>>

\* smaller_sizes, without the sizes the loop skips ("if sz >= chunk_days:
\* continue"): 3 if chunk_days > 3, then 1 if chunk_days > 1.
SmallerSizes(chunk_days) ==
    SelectSeq((IF chunk_days > 3 THEN <<3>> ELSE <<>>) \o
              (IF chunk_days > 1 THEN <<1>> ELSE <<>>),
              LAMBDA sz : sz < chunk_days)

\* tmp_dir = save_dir / f".tmp_chunks_{start_s}_{end_s}"
TmpDir(save_dir, s, e) ==
    save_dir \o "/.tmp_chunks_" \o ToString(s) \o "_" \o ToString(e)

\* chunk_out = tmp_dir / f"chemrxiv_{s2}_{e2}.jsonl"
ChunkOut(tmp_dir, s2, e2) ==
    tmp_dir \o "/chemrxiv_" \o ToString(s2) \o "_" \o ToString(e2) \o ".jsonl"

\* The frame of a call at the top of its while loop.
Frame(s, e, save_dir, chunk_days) ==
    [s |-> s, e |-> e, tmp_dir |-> TmpDir(save_dir, s, e), chunk_days |-> chunk_days,
     cur |-> s, phase |-> "chunk", sizes |-> <<>>, chunk_out |-> "missing",
     chunk_paths |-> <<>>]

\* _merge_jsonl_unique over chunk files: the merged file has data only if a
\* chunk file has (a chunk file may hold nothing that parses).
Merged(chunk_paths) ==
    IF \E k \in 1..Len(chunk_paths) : chunk_paths[k] = "data" THEN {"empty", "data"}
    ELSE {"empty"}

InitChunk ==
    /\ source = "crossref"
    /\ HarvestIdle
    /\ PeersIdle
    /\ call = NoCall
    /\ NoDir
    /\ NoParams
    /\ kw = [pc |-> "idle"]
    /\ \E e \in 1..MaxChunkDays, chunk_days \in ChunkSizes, out0 \in FileStates :
          chem = [pc |-> "running", stack |-> <<Frame(0, e, "dumps", chunk_days)>>,
                  out_path |-> out0, dumps |-> <<>>]

\* The frame that runs, and the chunk it is at.
Top == chem.stack[Len(chem.stack)]

Nxt == Min(Top.cur + Top.chunk_days, Top.e)

InLoop == chem.pc = "running" /\ Top.phase = "chunk" /\ Top.cur < Top.e

\* The stack with its top frame replaced.
WithTop(f) == [chem.stack EXCEPT ![Len(chem.stack)] = f]

\* The top frame after "chunk_paths.append(chunk_out); cur = nxt".
Advanced(state) ==
    [Top EXCEPT !.chunk_paths = Append(Top.chunk_paths, state), !.cur = Nxt,
                !.phase = "chunk", !.sizes = <<>>, !.chunk_out = "missing"]

\* The chemrxiv_dump call for the chunk, as the log keeps it.
ChunkCall ==
    [path |-> ChunkOut(Top.tmp_dir, Top.cur, Nxt), days |-> Top.chunk_days,
     depth |-> Len(chem.stack)]

\* The chunk file is there from an earlier attempt and is not empty.
ChunkSkip ==
    /\ InLoop
    /\ chem' = [chem EXCEPT !.stack = WithTop(Advanced("data"))]
    /\ UNCHANGED chemframe

\* chemrxiv_dump returns for the chunk.
ChunkDump ==
    /\ InLoop
    /\ \E written \in {"empty", "data"} :
          chem' = [chem EXCEPT !.stack = WithTop(Advanced(written)),
                               !.dumps = Append(chem.dumps, ChunkCall)]
    /\ UNCHANGED chemframe

\* chemrxiv_dump raises for the chunk: the smaller sizes are set up.
ChunkDumpFails ==
    /\ InLoop
    /\ \E left \in {"missing", "data"} :
          chem' = [chem EXCEPT
                     !.stack = WithTop([Top EXCEPT !.phase = "fallback",
                                                   !.sizes = SmallerSizes(Top.chunk_days),
                                                   !.chunk_out = left]),
                     !.dumps = Append(chem.dumps, ChunkCall)]
    /\ UNCHANGED chemframe

\* "for sz in smaller_sizes": the recursive call for the failed chunk.
Recurse ==
    /\ chem.pc = "running"
    /\ Top.phase = "fallback"
    /\ Top.sizes # <<>>
    /\ Len(chem.stack) < MaxDepth
    /\ chem' = [chem EXCEPT
                  !.stack = Append(WithTop([Top EXCEPT !.sizes = Tail(Top.sizes)]),
                                   Frame(Top.cur, Nxt, Top.tmp_dir, Head(Top.sizes)))]
    /\ UNCHANGED chemframe

\* No smaller size is left (or a recursive call has returned): the chunk is
\* appended as it is and the loop goes on.
FallbackEnds ==
    /\ chem.pc = "running"
    /\ Top.phase = "fallback"
    /\ Top.sizes = <<>>
    /\ chem' = [chem EXCEPT !.stack = WithTop(Advanced(Top.chunk_out))]
    /\ UNCHANGED chemframe

\* The while loop is over: _merge_jsonl_unique writes out_path and the call
\* returns; the caller breaks out of its loop over the sizes.
MergeReturn ==
    /\ chem.pc = "running"
    /\ Top.phase = "chunk"
    /\ Top.cur >= Top.e
    /\ \E merged \in Merged(Top.chunk_paths) :
          chem' = IF Len(chem.stack) = 1
                  THEN [chem EXCEPT !.pc = "returned", !.out_path = merged]
                  ELSE LET rest == SubSeq(chem.stack, 1, Len(chem.stack) - 1)
                           caller == rest[Len(rest)]
                       IN  [chem EXCEPT !.stack =
                              [rest EXCEPT ![Len(rest)] =
                                 [caller EXCEPT !.chunk_out = merged, !.sizes = <<>>]]]
    /\ UNCHANGED chemframe

\* The merge raises (an OSError of open or write): the call ends with the
\* exception, which the caller catches to try its next size.
MergeRaises ==
    /\ chem.pc = "running"
    /\ Top.phase = "chunk"
    /\ Top.cur >= Top.e
    /\ chem' = IF Len(chem.stack) = 1
               THEN [chem EXCEPT !.pc = "raised"]
               ELSE [chem EXCEPT !.stack = SubSeq(chem.stack, 1, Len(chem.stack) - 1)]
    /\ UNCHANGED chemframe

NextChunk ==
    \/ ChunkSkip
    \/ ChunkDump
    \/ ChunkDumpFails
    \/ Recurse
    \/ FallbackEnds
    \/ MergeReturn
    \/ MergeRaises

\* The interpreter goes on executing the call as long as it has a statement
\* to execute.
SpecChunk == InitChunk /\ [][NextChunk]_vars /\ WF_vars(NextChunk)

\* ---------------------------------------------------------------- C39
\* C39: a call of _scrape_range_chunked over a range with start before end and
\* chunk_days >= 1 ends, whatever the dump calls do: a recursive call has a
\* chunk size of 3 or 1 that is smaller than its caller's, a call with 1-day
\* chunks makes no recursive call, a chunk file is dumped again only by a call
\* with a smaller chunk size, and when the call has returned its output file
\* is written.
C39_ChunkedScrapeTerminates ==
    /\ <>(chem.pc \in {"returned", "raised"})
    /\ [](chem.pc = "running" =>
            /\ Len(chem.stack) <= 3
            /\ \A k \in 2..Len(chem.stack) :
                  /\ chem.stack[k].chunk_days \in {1, 3}
                  /\ chem.stack[k].chunk_days < chem.stack[k - 1].chunk_days
                  /\ chem.stack[k - 1].chunk_days # 1)
    /\ [](\A a, b \in 1..Len(chem.dumps) :
             (chem.dumps[a].path = chem.dumps[b].path /\ a < b) =>
                chem.dumps[b].days < chem.dumps[a].days)
    /\ [](chem.pc = "returned" => chem.out_path \in {"empty", "data"})

\* Every dump of a 7-day call over two days failed, down to the 1-day chunks;
\* the call returned with an empty output file.
C39_Witness ==
    /\ chem.pc = "returned"
    /\ chem.out_path = "empty"
    /\ Len(chem.dumps) = 4
    /\ chem.dumps[1].days = 7
    /\ chem.dumps[2].days = 3
    /\ chem.dumps[3].days = 1
    /\ chem.dumps[4].days = 1
    /\ chem.dumps[4].depth = 3

====
